---- MODULE Spec2Model ----
(***************************************************************************)
(* A model of the WebRender GPU rendering core (gfx/webrender/src):        *)
(*   - Device        (device.rs): the binding caches over the GL context,  *)
(*                    texture records, frames;                             *)
(*   - CacheTexture  (renderer.rs): the CPU-shadowed GPU cache texture;    *)
(*   - Renderer      (renderer.rs): update() over the result channel,      *)
(*                    render(), deinit().                                  *)
(* The program state is threaded through the operators as a "world"        *)
(* record w: [ok, debug_assertions, device, gl, log, renderer, handler].   *)
(* w.ok = FALSE once the thread has panicked (a failed assertion, unwrap,  *)
(* expect, index out of range); every operator leaves such a world alone.  *)
(* w.log is the trace of GL calls and handler calls made by the operation  *)
(* in progress.                                                            *)
(***************************************************************************)
EXTENDS Integers, Sequences, FiniteSets, TLC

VARIABLES
    debug_assertions,   \* build configuration: are debug_assert!s compiled in
    device,             \* struct Device (device.rs)
    gl,                 \* the GL context behind Rc<gl::Gl>
    renderer,           \* struct Renderer (renderer.rs), without its device
    handler,            \* the ExternalImageHandler: outstanding locks per key
    result_rx,          \* the result channel: messages sent and not yet received
    pc,                 \* where the render thread is
    log,                \* GL / handler calls made by the last operation
    hist                \* history: what the last operations did

vars == <<debug_assertions, device, gl, renderer, handler, result_rx, pc, log, hist>>

(***************************************************************************)
(* Bounds of the model.                                                    *)
(***************************************************************************)
\* Width of the GPU cache texture, in blocks (1024 in the program).
MAX_VERTEX_TEXTURE_WIDTH == 2
\* Messages the backend sends over one run.
MaxMsgs == 2
\* Calls of render() over one run.
MaxRenders == 2
\* Operations of one run of the cache and device specifications.
MaxOps == 3
\* Frames staged, and frames rendered, over one run of the frame executor.
MaxFrames == 3

\* bound_textures: [TextureId; 16]
NumTextureUnits == 16

GPU_DATA_TEXTURE_POOL == 5

TextureSampler ==
    [Color0 |-> 0, Color1 |-> 1, Color2 |-> 2, CacheA8 |-> 3, CacheRGBA8 |-> 4,
     ResourceCache |-> 5, Layers |-> 6, RenderTasks |-> 7, Dither |-> 8]

DEFAULT_TEXTURE == TextureSampler.Color0

TextureTargets == {"TEXTURE_2D", "TEXTURE_2D_ARRAY", "TEXTURE_RECTANGLE", "TEXTURE_EXTERNAL_OES"}

TextureId(name, target) == [name |-> name, target |-> target]

InvalidTextureId == TextureId(0, "TEXTURE_2D")

\* The contents of a texel or of a GPU block that was never written.
Undefined == -1

\* GpuBlockData::empty()
EmptyBlock == 0

(***************************************************************************)
(* Helpers.                                                                *)
(***************************************************************************)
Reverse(s) == [i \in 1..Len(s) |-> s[Len(s) + 1 - i]]

Panic(w) == [w EXCEPT !.ok = FALSE]

DebugAssert(w, cond) ==
    IF w.debug_assertions /\ ~cond THEN Panic(w) ELSE w

(***************************************************************************)
(* The GL context.  Every call is appended to the log; the calls that      *)
(* change a binding or a capability change w.gl.                           *)
(***************************************************************************)
\* The bindings and capabilities of the context after the call
GlState(g, op, target, arg) ==
    CASE op = "active_texture" -> [g EXCEPT !.active_texture = arg]
    [] op = "bind_texture" -> [g EXCEPT !.tex[g.active_texture][target] = arg]
    [] op = "use_program" -> [g EXCEPT !.program = arg]
    [] op = "bind_vertex_array" -> [g EXCEPT !.vao = arg]
    [] op = "bind_buffer" ->
         IF target = "PIXEL_UNPACK_BUFFER" THEN [g EXCEPT !.pixel_unpack = arg] ELSE g
    [] op = "bind_framebuffer" ->
         [g EXCEPT !.read_fbo = IF target \in {"READ_FRAMEBUFFER", "FRAMEBUFFER"} THEN arg ELSE @,
                   !.draw_fbo = IF target \in {"DRAW_FRAMEBUFFER", "FRAMEBUFFER"} THEN arg ELSE @]
    [] op = "attach_shader" -> [g EXCEPT !.attached = @ \cup {arg}]
    [] op = "detach_shader" -> [g EXCEPT !.attached = @ \ {arg}]
    [] op = "delete_vertex_arrays" ->
         \* deleting the bound vertex array reverts the binding to 0
         [g EXCEPT !.vao = IF @ = arg THEN 0 ELSE @]
    [] op = "delete_framebuffer" ->
         \* deleting a bound framebuffer reverts the binding to 0
         [g EXCEPT !.read_fbo = IF @ = arg THEN 0 ELSE @,
                   !.draw_fbo = IF @ = arg THEN 0 ELSE @]
    [] op = "enable" -> [g EXCEPT !.caps[target] = TRUE]
    [] op = "disable" -> [g EXCEPT !.caps[target] = FALSE]
    [] op = "depth_mask" -> [g EXCEPT !.depth_mask = (arg = 1)]
    [] op = "blend_func" -> [g EXCEPT !.blend_func = target]
    [] op = "blend_color" -> [g EXCEPT !.blend_color = arg]
    [] OTHER -> g

Gl(w, op, target, arg) ==
    IF ~w.ok THEN w
    ELSE [w EXCEPT !.gl = GlState(@, op, target, arg),
                   !.log = Append(@, [op |-> op, target |-> target, arg |-> arg])]

G(op, target, arg) == [op |-> op, target |-> target, arg |-> arg]

\* The GL calls `calls`, in order
RECURSIVE GlCalls(_, _)
GlCalls(w, calls) ==
    IF calls = <<>> \/ ~w.ok THEN w
    ELSE GlCalls(Gl(w, calls[1].op, calls[1].target, calls[1].arg), Tail(calls))

\* glGen*: names are handed out in increasing order, never reused.
GlGen(w, kind) == [w EXCEPT !.gl.gen[kind] = @ + 1]

\* The image of the texture bound to `target` on the active unit.
GlBoundTexture(w, target) == w.gl.tex[w.gl.active_texture][target]

\* glTexImage2D (dims = 2) / glTexImage3D (dims = 3): a new image for the
\* texture bound to `target`; its texels are `pixels`, or undefined when no
\* data is given.  A 2D call on an array target, or a 3D call on another
\* target, is a GL error and changes nothing.
GlTexImage(w, dims, target, format, width, height, layers, pixels) ==
    LET name == GlBoundTexture(w, target)
        n == width * height * layers
        texels == [i \in 0..(n - 1) |->
                      IF i + 1 <= Len(pixels) THEN pixels[i + 1] ELSE Undefined]
        Image(w1) ==
            IF name = 0 \/ ((dims = 3) # (target = "TEXTURE_2D_ARRAY")) THEN w1
            ELSE [w1 EXCEPT !.gl.images =
                     [x \in DOMAIN @ \cup {name} |->
                         IF x = name
                         THEN [format |-> format, width |-> width, height |-> height,
                               layers |-> layers, texels |-> texels]
                         ELSE @[x]]]
    IN Image(Gl(w, "tex_image", target, layers))

\* glTexSubImage2D: writes the rectangle (x0, y0, width, height) of the image
\* of the texture bound to `target`; `data` gives the texels row by row.  With
\* from_pbo the data is read from the buffer bound to PIXEL_UNPACK_BUFFER.  A
\* rectangle outside the image is a GL error and changes nothing.
GlTexSubImage2d(w, target, x0, y0, width, height, data, from_pbo) ==
    LET name == GlBoundTexture(w, target)
        src == IF from_pbo
               THEN IF w.gl.pixel_unpack \in DOMAIN w.gl.buffers
                    THEN w.gl.buffers[w.gl.pixel_unpack] ELSE <<>>
               ELSE data
        img == w.gl.images[name]
        Write(w1) ==
            IF name \notin DOMAIN w.gl.images THEN w1
            ELSE IF x0 + width > img.width \/ y0 + height > img.height
                      \/ Len(src) < width * height THEN w1
            ELSE [w1 EXCEPT !.gl.images[name].texels =
                     [i \in DOMAIN @ |->
                         LET x == i % img.width
                             y == (i \div img.width) % img.height
                             layer == i \div (img.width * img.height)
                         IN IF layer = 0 /\ x >= x0 /\ x < x0 + width
                                         /\ y >= y0 /\ y < y0 + height
                            THEN src[(y - y0) * width + (x - x0) + 1]
                            ELSE @[i]]]
    IN Write(Gl(w, IF from_pbo THEN "tex_sub_image_2d_pbo" ELSE "tex_sub_image_2d", target, y0))

\* glBufferData on the buffer bound to PIXEL_UNPACK_BUFFER.
GlBufferData(w, data) ==
    LET b == w.gl.pixel_unpack
        Store(w1) ==
            IF b = 0 THEN w1
            ELSE [w1 EXCEPT !.gl.buffers =
                     [x \in DOMAIN @ \cup {b} |-> IF x = b THEN data ELSE @[x]]]
    IN Store(Gl(w, "buffer_data", "PIXEL_UNPACK_BUFFER", Len(data)))

(***************************************************************************)
(* Device (device.rs).                                                     *)
(***************************************************************************)
\* Device::new
DeviceNew ==
    [bound_textures |-> [i \in 0..(NumTextureUnits - 1) |-> InvalidTextureId],
     bound_program |-> 0, bound_vao |-> 0, bound_pbo |-> 0,
     bound_read_fbo |-> 0, bound_draw_fbo |-> 0,
     default_read_fbo |-> 0, default_draw_fbo |-> 0,
     inside_frame |-> FALSE,
     textures |-> <<>>,
     vaos |-> <<>>,
     frame_id |-> 0]

\* begin_frame and end_frame: for i in 0..self.bound_textures.len(), unit i is
\* made active and its TEXTURE_2D binding is unbound.  Here from unit `unit` on.
RECURSIVE UnbindTextures2d(_, _)
UnbindTextures2d(w, unit) ==
    IF unit >= NumTextureUnits \/ ~w.ok THEN w
    ELSE UnbindTextures2d(GlCalls(w, <<G("active_texture", "", unit),
                                       G("bind_texture", "TEXTURE_2D", 0)>>),
                          unit + 1)

\* Device::begin_frame; the frame id it returns is w.device.frame_id.
BeginFrame(w) ==
    IF ~w.ok THEN w
    ELSE IF w.debug_assertions /\ w.device.inside_frame
    THEN Panic([w EXCEPT !.log = Append(@, G("begin_frame", "", w.device.frame_id))])
    ELSE
    LET d == w.device
        w1 == [w EXCEPT !.device =
                  [d EXCEPT !.inside_frame = TRUE,
                            !.default_read_fbo = w.gl.read_fbo,
                            !.default_draw_fbo = w.gl.draw_fbo,
                            !.bound_textures = [i \in DOMAIN @ |-> InvalidTextureId],
                            !.bound_program = 0,
                            !.bound_vao = 0,
                            !.bound_read_fbo = w.gl.read_fbo,
                            !.bound_draw_fbo = w.gl.draw_fbo,
                            !.bound_pbo = 0],
                !.log = Append(@, G("begin_frame", "", d.frame_id))]
    IN GlCalls(UnbindTextures2d(w1, 0),
               <<G("use_program", "", 0),
                 G("bind_vertex_array", "", 0),
                 G("pixel_store_i", "UNPACK_ALIGNMENT", 1),
                 G("bind_buffer", "PIXEL_UNPACK_BUFFER", 0),
                 G("active_texture", "", 0)>>)

\* Device::bind_texture
BindTexture(w, sampler, texture_id) ==
    IF ~w.ok THEN w
    ELSE IF w.debug_assertions /\ ~w.device.inside_frame THEN Panic(w)
    ELSE IF w.device.bound_textures[sampler] # texture_id
    THEN GlCalls([w EXCEPT !.device.bound_textures[sampler] = texture_id],
                 <<G("active_texture", "", sampler),
                   G("bind_texture", texture_id.target, texture_id.name),
                   G("active_texture", "", 0)>>)
    ELSE w

\* The framebuffer a bind_read_target / bind_draw_target argument names:
\* texture_id = <<>> is None, <<id, layer>> is Some((id, layer)).
\* -1 when the lookup panics (unknown texture, no such layer).
TargetFbo(w, texture_id, default_fbo) ==
    IF texture_id = <<>> THEN default_fbo
    ELSE IF texture_id[1] \notin DOMAIN w.device.textures THEN -1
    ELSE LET fbo_ids == w.device.textures[texture_id[1]].fbo_ids
         IN IF texture_id[2] + 1 \in DOMAIN fbo_ids THEN fbo_ids[texture_id[2] + 1] ELSE -1

\* Device::bind_read_target
BindReadTarget(w, texture_id) ==
    IF ~w.ok THEN w
    ELSE IF w.debug_assertions /\ ~w.device.inside_frame THEN Panic(w)
    ELSE LET Bind(fbo_id) ==
                 IF fbo_id = -1 THEN Panic(w)
                 ELSE IF w.device.bound_read_fbo # fbo_id
                 THEN Gl([w EXCEPT !.device.bound_read_fbo = fbo_id],
                         "bind_framebuffer", "READ_FRAMEBUFFER", fbo_id)
                 ELSE w
         IN Bind(TargetFbo(w, texture_id, w.device.default_read_fbo))

\* Device::bind_draw_target; dimensions = <<>> is None.
BindDrawTarget(w, texture_id, dimensions) ==
    IF ~w.ok THEN w
    ELSE IF w.debug_assertions /\ ~w.device.inside_frame THEN Panic(w)
    ELSE LET Viewport(w1) ==
                 IF dimensions # <<>>
                 THEN [w1 EXCEPT !.gl.viewport = dimensions,
                                 !.log = Append(@, G("viewport", "", dimensions[2]))]
                 ELSE w1
             Bind(fbo_id) ==
                 IF fbo_id = -1 THEN Panic(w)
                 ELSE Viewport(IF w.device.bound_draw_fbo # fbo_id
                               THEN Gl([w EXCEPT !.device.bound_draw_fbo = fbo_id],
                                       "bind_framebuffer", "DRAW_FRAMEBUFFER", fbo_id)
                               ELSE w)
         IN Bind(TargetFbo(w, texture_id, w.device.default_draw_fbo))

\* bind_program without the cache check
BindProgramAlways(w, program_id) ==
    IF ~w.ok THEN w
    ELSE IF w.debug_assertions /\ ~w.device.inside_frame THEN Panic(w)
    ELSE [Gl(w, "use_program", "", program_id) EXCEPT !.device.bound_program = program_id]

\* Device::bind_program, given the program's id
BindProgram(w, program_id) ==
    IF ~w.ok THEN w
    ELSE IF w.debug_assertions /\ ~w.device.inside_frame THEN Panic(w)
    ELSE IF w.device.bound_program # program_id
    THEN [Gl(w, "use_program", "", program_id) EXCEPT !.device.bound_program = program_id]
    ELSE w

\* Device::load_program for a program that has no shaders yet, as
\* create_program_with_prefix calls it; an attachment is <<program, shader>>.
\* vs_ok, fs_ok: the COMPILE_STATUS the driver reports for the vertex and the
\* fragment shader; link_ok: the LINK_STATUS.  Gives the device and the Result.
\* (The uniform lookups that follow bind_program change nothing modelled.)
LoadProgram(w, program_id, vs_ok, fs_ok, link_ok) ==
    LET vs_id == w.gl.gen.shaders + 1
        fs_id == w.gl.gen.shaders + 2
        \* Device::compile_shader
        CompileShader(x, id, shader_type) ==
            GlCalls(GlGen(x, "shaders"),
                    <<G("create_shader", shader_type, id), G("shader_source", "", id),
                      G("compile_shader", "", id)>>)
        \* Program::attach_and_bind_shaders up to the link
        Link(x) ==
            GlCalls(x, <<G("attach_shader", "", <<program_id, vs_id>>),
                         G("attach_shader", "", <<program_id, fs_id>>),
                         G("link_program", "", program_id)>>)
        \* Program::attach_and_bind_shaders: the link has failed
        Detach(x) ==
            GlCalls(x, <<G("detach_shader", "", <<program_id, vs_id>>),
                         G("detach_shader", "", <<program_id, fs_id>>)>>)
    IN IF ~w.ok THEN [w |-> w, result |-> ""]
       ELSE IF w.debug_assertions /\ ~w.device.inside_frame
       THEN [w |-> Panic(w), result |-> ""]
       ELSE IF ~vs_ok
       THEN [w |-> CompileShader(w, vs_id, "VERTEX_SHADER"),
             result |-> "Err(ShaderError::Compilation)"]
       ELSE IF ~fs_ok
       THEN [w |-> CompileShader(CompileShader(w, vs_id, "VERTEX_SHADER"),
                                 fs_id, "FRAGMENT_SHADER"),
             result |-> "Err(ShaderError::Compilation)"]
       ELSE IF ~link_ok
       THEN [w |-> Detach(Link(CompileShader(CompileShader(w, vs_id, "VERTEX_SHADER"),
                                             fs_id, "FRAGMENT_SHADER"))),
             result |-> "Err(ShaderError::Link)"]
       ELSE [w |-> BindProgram(Link(CompileShader(CompileShader(w, vs_id, "VERTEX_SHADER"),
                                                  fs_id, "FRAGMENT_SHADER")),
                               program_id),
             result |-> "Ok"]

\* Device::create_program_with_prefix.  The Program it builds is returned on
\* Ok; try! returns the error of load_program, and the Program, a local whose
\* id is the new GL program, is dropped: impl Drop for Program asserts that its
\* id is 0 (the thread is not panicking).
CreateProgramWithPrefix(w, vs_ok, fs_ok, link_ok) ==
    IF ~w.ok THEN [w |-> w, result |-> ""]
    ELSE IF w.debug_assertions /\ ~w.device.inside_frame THEN [w |-> Panic(w), result |-> ""]
    ELSE LET pid == w.gl.gen.programs + 1
             loaded == LoadProgram(Gl(GlGen(w, "programs"), "create_program", "", pid),
                                   pid, vs_ok, fs_ok, link_ok)
         IN IF loaded.result = "Ok" THEN loaded
            ELSE [w |-> DebugAssert(loaded.w, pid = 0), result |-> loaded.result]

\* Device::bind_vao
BindVao(w, vao_id) ==
    IF ~w.ok THEN w
    ELSE IF w.debug_assertions /\ ~w.device.inside_frame THEN Panic(w)
    ELSE IF w.device.bound_vao # vao_id
    THEN Gl([w EXCEPT !.device.bound_vao = vao_id], "bind_vertex_array", "", vao_id)
    ELSE w

\* Device::bind_pbo; pbo_id = 0 is None
BindPbo(w, pbo_id) ==
    IF ~w.ok THEN w
    ELSE IF w.debug_assertions /\ ~w.device.inside_frame THEN Panic(w)
    ELSE IF w.device.bound_pbo # pbo_id
    THEN Gl([w EXCEPT !.device.bound_pbo = pbo_id], "bind_buffer", "PIXEL_UNPACK_BUFFER", pbo_id)
    ELSE w

\* end_frame that unbinds the program only
EndFrameUnbindProgramOnly(w) == Gl(w, "use_program", "", 0)

\* Device::end_frame, its GL calls: the program and the TEXTURE_2D binding of
\* every unit are unbound.
EndFrameUnbind(w) ==
    Gl(UnbindTextures2d(GlCalls(w, <<G("bind_texture", "TEXTURE_2D", 0),
                                     G("use_program", "", 0)>>), 0),
       "active_texture", "", 0)

\* end_frame that does not increment the frame id
EndFrameKeepsId(w) ==
    IF ~w.ok THEN w
    ELSE
    LET Leave(w1) ==
            IF ~w1.ok THEN w1
            ELSE IF w1.debug_assertions /\ ~w1.device.inside_frame THEN Panic(w1)
            ELSE EndFrameUnbind([w1 EXCEPT !.device.inside_frame = FALSE])
    IN Leave(BindReadTarget(
                 BindDrawTarget(
                     [w EXCEPT !.log = Append(@, G("end_frame", "", w.device.frame_id))],
                     <<>>, <<>>),
                 <<>>))

\* Device::end_frame
EndFrame(w) ==
    IF ~w.ok THEN w
    ELSE
    LET Leave(w1) ==
            IF ~w1.ok THEN w1
            ELSE IF w1.debug_assertions /\ ~w1.device.inside_frame THEN Panic(w1)
            ELSE [EndFrameUnbind([w1 EXCEPT !.device.inside_frame = FALSE])
                     EXCEPT !.device.frame_id = @ + 1]
    IN Leave(BindReadTarget(
                 BindDrawTarget(
                     [w EXCEPT !.log = Append(@, G("end_frame", "", w.device.frame_id))],
                     <<>>, <<>>),
                 <<>>))

\* RenderTargetMode
ModeNone == [kind |-> "None", layers |-> 0]
ModeSimple == [kind |-> "SimpleRenderTarget", layers |-> 0]
ModeLayer(n) == [kind |-> "LayerRenderTarget", layers |-> n]

\* Device::create_texture_ids(1, target): the id it returns
NewTextureId(w, target) == TextureId(w.gl.gen.textures + 1, target)

\* Device::create_texture_ids(1, target) without gen_textures
CreateTextureIdsOfOneName(w, target) ==
    IF ~w.ok THEN w
    ELSE LET id == NewTextureId(w, target)
             texture == [format |-> "Invalid", width |-> 0, height |-> 0,
                         filter |-> "Nearest", mode |-> ModeNone,
                         fbo_ids |-> <<>>, depth_rb |-> 0]
         IN [w EXCEPT !.device.textures =
                [x \in DOMAIN @ \cup {id} |-> IF x = id THEN texture ELSE @[x]]]

\* Device::create_texture_ids(1, target)
CreateTextureIds(w, target) ==
    IF ~w.ok THEN w
    ELSE LET id == NewTextureId(w, target)
             texture == [format |-> "Invalid", width |-> 0, height |-> 0,
                         filter |-> "Nearest", mode |-> ModeNone,
                         fbo_ids |-> <<>>, depth_rb |-> 0]
         IN [GlGen(w, "textures") EXCEPT !.device.textures =
                [x \in DOMAIN @ \cup {id} |-> IF x = id THEN texture ELSE @[x]]]

\* glFramebufferTexture2D / glFramebufferTextureLayer on the framebuffer bound
\* for drawing.
GlFramebufferTexture(w, name, layer) ==
    LET fbo == w.gl.draw_fbo
    IN [Gl(w, "framebuffer_texture", "FRAMEBUFFER", layer) EXCEPT !.gl.fbos =
           [x \in DOMAIN @ \cup {fbo} |->
               IF x = fbo THEN [texture |-> name, layer |-> layer] ELSE @[x]]]

\* gl.delete_framebuffers(fbo_ids)
RECURSIVE GlDeleteFramebuffers(_, _)
GlDeleteFramebuffers(w, fbo_ids) ==
    IF fbo_ids = <<>> \/ ~w.ok THEN w
    ELSE GlDeleteFramebuffers(Gl(w, "delete_framebuffer", "", fbo_ids[1]), Tail(fbo_ids))

\* update_texture_storage: for (fbo_index, fbo_id) in
\* texture.fbo_ids.iter().enumerate(), here from the i-th framebuffer on
RECURSIVE AttachLayers(_, _, _, _, _)
AttachLayers(w, name, fbo_ids, depth_rb, i) ==
    IF i > Len(fbo_ids) \/ ~w.ok THEN w
    ELSE AttachLayers(Gl(GlFramebufferTexture(
                             Gl(w, "bind_framebuffer", "FRAMEBUFFER", fbo_ids[i]),
                             name, i - 1),
                         "framebuffer_renderbuffer", "FRAMEBUFFER", depth_rb),
                      name, fbo_ids, depth_rb, i + 1)

\* update_texture_storage with layer_count = Some(n), past its assertions and
\* its early return.  gen_framebuffers hands out the names of the layers
\* added, delete_framebuffers takes those of the layers dropped, and
\* gen_renderbuffers hands out the depth buffer if the texture has none.
UpdateLayerStorage(w, texture_id, n) ==
    LET texture == w.device.textures[texture_id]
        current_layer_count == Len(texture.fbo_ids)
        needed_layer_count == n - current_layer_count
        base == w.gl.gen.framebuffers
        fbo_ids == IF needed_layer_count > 0
                   THEN texture.fbo_ids \o [i \in 1..needed_layer_count |-> base + i]
                   ELSE SubSeq(texture.fbo_ids, 1, n)
        depth_rb == IF texture.depth_rb # 0 THEN texture.depth_rb
                    ELSE w.gl.gen.renderbuffers + 1
    IN AttachLayers(
           GlCalls([GlDeleteFramebuffers(
                        GlTexImage(w, 3, texture_id.target, texture.format,
                                   texture.width, texture.height, n, <<>>),
                        SubSeq(texture.fbo_ids, n + 1, current_layer_count))
                       EXCEPT !.gl.gen.framebuffers =
                                  IF needed_layer_count > 0 THEN @ + needed_layer_count ELSE @,
                              !.gl.gen.renderbuffers =
                                  IF texture.depth_rb # 0 THEN @ ELSE @ + 1,
                              !.device.textures[texture_id].fbo_ids = fbo_ids,
                              !.device.textures[texture_id].depth_rb = depth_rb],
                   <<G("bind_renderbuffer", "RENDERBUFFER", depth_rb),
                     G("renderbuffer_storage", "RENDERBUFFER", depth_rb)>>),
           texture_id.name, fbo_ids, depth_rb, 1)

\* Device::update_texture_storage; layer_count = <<>> is None, <<n>> is Some(n).
UpdateTextureStorage(w, texture_id, layer_count, resized) ==
    IF ~w.ok THEN w
    ELSE IF texture_id \notin DOMAIN w.device.textures THEN Panic(w)
    ELSE
    LET texture == w.device.textures[texture_id]
        new_fbo == w.gl.gen.framebuffers + 1
        \* the framebuffers the device has bound are bound again
        rebind == <<G("bind_framebuffer", "READ_FRAMEBUFFER", w.device.bound_read_fbo),
                    G("bind_framebuffer", "DRAW_FRAMEBUFFER", w.device.bound_draw_fbo)>>
    IN IF layer_count # <<>>
       THEN IF layer_count[1] <= 0 \/ texture_id.target # "TEXTURE_2D_ARRAY" THEN Panic(w)
            ELSE IF Len(texture.fbo_ids) = layer_count[1] /\ ~resized THEN w
            ELSE IF texture.format = "Invalid" THEN Panic(w)
            ELSE GlCalls(UpdateLayerStorage(w, texture_id, layer_count[1]), rebind)
       ELSE IF texture.fbo_ids = <<>>
            THEN IF texture_id.target = "TEXTURE_2D_ARRAY" THEN Panic(w)
                 ELSE GlCalls([GlFramebufferTexture(
                                   Gl(GlGen(w, "framebuffers"),
                                      "bind_framebuffer", "FRAMEBUFFER", new_fbo),
                                   texture_id.name, 0)
                                  EXCEPT !.device.textures[texture_id].fbo_ids = <<new_fbo>>],
                              rebind)
            ELSE IF Len(texture.fbo_ids) # 1 THEN Panic(w)
            ELSE GlCalls(w, rebind)

\* init_texture giving every layer render target one layer
InitTextureStorageOneLayer(w, texture_id, width, height, format, mode, pixels, resized) ==
    CASE mode.kind = "SimpleRenderTarget" ->
           UpdateTextureStorage(
               GlTexImage(w, 2, texture_id.target, format, width, height, 1, <<>>),
               texture_id, <<>>, resized)
      [] mode.kind = "LayerRenderTarget" ->
           UpdateTextureStorage(w, texture_id, <<1>>, resized)
      [] OTHER ->
           GlTexImage(w, 2, texture_id.target, format, width, height, 1, pixels)

\* init_texture: match mode, after the texture is bound and its parameters set
InitTextureStorage(w, texture_id, width, height, format, mode, pixels, resized) ==
    CASE mode.kind = "SimpleRenderTarget" ->
           UpdateTextureStorage(
               GlTexImage(w, 2, texture_id.target, format, width, height, 1, <<>>),
               texture_id, <<>>, resized)
      [] mode.kind = "LayerRenderTarget" ->
           UpdateTextureStorage(w, texture_id, <<mode.layers>>, resized)
      [] OTHER ->
           GlTexImage(w, 2, texture_id.target, format, width, height, 1, pixels)

\* Device::init_texture; pixels = <<>> is None.
InitTexture(w, texture_id, width, height, format, filter, mode, pixels) ==
    IF ~w.ok THEN w
    ELSE IF w.debug_assertions /\ ~w.device.inside_frame THEN Panic(w)
    ELSE IF texture_id \notin DOMAIN w.device.textures THEN Panic(w)
    ELSE IF format = "Invalid" THEN Panic(w)
    ELSE
    LET texture == w.device.textures[texture_id]
    IN InitTextureStorage(
           Gl(BindTexture([w EXCEPT !.device.textures[texture_id] =
                              [texture EXCEPT !.format = format, !.width = width,
                                              !.height = height, !.filter = filter,
                                              !.mode = mode]],
                          DEFAULT_TEXTURE, texture_id),
              "tex_parameter_i", texture_id.target, 0),
           texture_id, width, height, format, mode, pixels,
           texture.width # width \/ texture.height # height)

\* deinit_texture leaving the depth renderbuffer with the record
DeinitTextureKeepsDepthRb(w, texture_id) ==
    IF ~w.ok THEN w
    ELSE IF w.debug_assertions /\ ~w.device.inside_frame THEN Panic(w)
    ELSE IF texture_id \notin DOMAIN w.device.textures THEN Panic(w)
    ELSE IF w.device.textures[texture_id].format = "Invalid" THEN Panic(w)
    ELSE
    LET texture == w.device.textures[texture_id]
        DepthRb(w1) ==
            IF texture.depth_rb # 0
            THEN Gl(w1, "delete_renderbuffer", "", texture.depth_rb) ELSE w1
    IN [GlDeleteFramebuffers(
            DepthRb(GlTexImage(BindTexture(w, DEFAULT_TEXTURE, texture_id),
                               2, texture_id.target, texture.format, 0, 0, 1, <<>>)),
            texture.fbo_ids)
           EXCEPT !.device.textures[texture_id] =
                      [texture EXCEPT !.fbo_ids = <<>>,
                                      !.format = "Invalid", !.width = 0, !.height = 0]]

\* Device::deinit_texture
DeinitTexture(w, texture_id) ==
    IF ~w.ok THEN w
    ELSE IF w.debug_assertions /\ ~w.device.inside_frame THEN Panic(w)
    ELSE IF texture_id \notin DOMAIN w.device.textures THEN Panic(w)
    ELSE IF w.device.textures[texture_id].format = "Invalid" THEN Panic(w)
    ELSE
    LET texture == w.device.textures[texture_id]
        DepthRb(w1) ==
            IF texture.depth_rb # 0
            THEN Gl(w1, "delete_renderbuffer", "", texture.depth_rb) ELSE w1
    IN [GlDeleteFramebuffers(
            DepthRb(GlTexImage(BindTexture(w, DEFAULT_TEXTURE, texture_id),
                               2, texture_id.target, texture.format, 0, 0, 1, <<>>)),
            texture.fbo_ids)
           EXCEPT !.device.textures[texture_id] =
                      [texture EXCEPT !.depth_rb = 0, !.fbo_ids = <<>>,
                                      !.format = "Invalid", !.width = 0, !.height = 0]]

\* Device::get_texture_dimensions
GetTextureDimensions(w, texture_id) ==
    IF texture_id \in DOMAIN w.device.textures
    THEN <<w.device.textures[texture_id].width, w.device.textures[texture_id].height>>
    ELSE <<0, 0>>

\* glCopyTexSubImage2D(target, 0, 0, 0, 0, 0, width, height): copies from the
\* image attached to the read framebuffer into the texture bound to `target`.
GlCopyTexSubImage2d(w, target, width, height) ==
    LET dst == GlBoundTexture(w, target)
        fbo == w.gl.read_fbo
        src == IF fbo \in DOMAIN w.gl.fbos THEN w.gl.fbos[fbo].texture ELSE 0
        layer == IF fbo \in DOMAIN w.gl.fbos THEN w.gl.fbos[fbo].layer ELSE 0
        s == w.gl.images[src]
        d == w.gl.images[dst]
        Write(w1) ==
            IF src \notin DOMAIN w.gl.images \/ dst \notin DOMAIN w.gl.images THEN w1
            ELSE IF width > s.width \/ height > s.height \/ width > d.width
                      \/ height > d.height \/ layer >= s.layers THEN w1
            ELSE [w1 EXCEPT !.gl.images[dst].texels =
                     [i \in DOMAIN @ |->
                         LET x == i % d.width
                             y == i \div d.width
                         IN IF x < width /\ y < height
                            THEN s.texels[layer * s.width * s.height + y * s.width + x]
                            ELSE @[i]]]
    IN Write(Gl(w, "copy_tex_sub_image_2d", target, height))

\* resize_texture that makes the temporary texture and the new storage but
\* copies no texels
ResizeTextureLosingTexels(w, texture_id, new_width, new_height, format, filter, mode) ==
    IF ~w.ok THEN w
    ELSE IF w.debug_assertions /\ ~w.device.inside_frame THEN Panic(w)
    ELSE
    LET old_size == GetTextureDimensions(w, texture_id)
        temp_texture_id == NewTextureId(w, "TEXTURE_2D")
        Create(x, id, width, height) ==
            UpdateTextureStorage(
                InitTexture(x, id, width, height, format, filter, mode, <<>>),
                id, <<>>, TRUE)
    IN DeinitTexture(
           BindReadTarget(
               Create(DeinitTexture(Create(CreateTextureIds(w, "TEXTURE_2D"),
                                           temp_texture_id, old_size[1], old_size[2]),
                                    texture_id),
                      texture_id, new_width, new_height),
               <<>>),
           temp_texture_id)

\* Device::resize_texture
ResizeTexture(w, texture_id, new_width, new_height, format, filter, mode) ==
    IF ~w.ok THEN w
    ELSE IF w.debug_assertions /\ ~w.device.inside_frame THEN Panic(w)
    ELSE
    LET old_size == GetTextureDimensions(w, texture_id)
        temp_texture_id == NewTextureId(w, "TEXTURE_2D")
        \* the copy from the texture bound for reading into the one bound to unit 0
        CopyInto(x, id) ==
            IF x.ok THEN GlCopyTexSubImage2d(x, id.target, old_size[1], old_size[2]) ELSE x
        \* a texture of the given size with one framebuffer
        Create(x, id, width, height) ==
            UpdateTextureStorage(
                InitTexture(x, id, width, height, format, filter, mode, <<>>),
                id, <<>>, TRUE)
        \* the old texels go into the temporary texture
        Save(w2) ==
            CopyInto(BindTexture(BindReadTarget(w2, <<texture_id, 0>>),
                                 DEFAULT_TEXTURE, temp_texture_id),
                     temp_texture_id)
        \* and from it into the texture at its new size
        Restore(w6) ==
            CopyInto(BindTexture(BindReadTarget(w6, <<temp_texture_id, 0>>),
                                 DEFAULT_TEXTURE, texture_id),
                     texture_id)
    IN DeinitTexture(
           BindReadTarget(
               Restore(Create(DeinitTexture(
                                  Save(Create(CreateTextureIds(w, "TEXTURE_2D"),
                                              temp_texture_id, old_size[1], old_size[2])),
                                  texture_id),
                              texture_id, new_width, new_height)),
               <<>>),
           temp_texture_id)

\* update_pbo_data that uploads nothing
UpdatePboDataSkipped(w, data) == w

\* Device::update_pbo_data
UpdatePboData(w, data) ==
    IF ~w.ok THEN w
    ELSE IF w.debug_assertions /\ (~w.device.inside_frame \/ w.device.bound_pbo = 0)
    THEN Panic(w)
    ELSE GlBufferData(w, data)

\* Device::orphan_pbo: new storage of new_size blocks, contents undefined
OrphanPbo(w, new_size) ==
    IF ~w.ok THEN w
    ELSE IF w.debug_assertions /\ (~w.device.inside_frame \/ w.device.bound_pbo = 0)
    THEN Panic(w)
    ELSE GlBufferData(w, [i \in 1..new_size |-> Undefined])

\* Device::update_texture_from_pbo (offset 0)
UpdateTextureFromPbo(w, texture_id, x0, y0, width, height) ==
    IF ~w.ok THEN w
    ELSE IF w.debug_assertions /\ ~w.device.inside_frame THEN Panic(w)
    ELSE IF w.debug_assertions /\ texture_id \notin DOMAIN w.device.textures THEN Panic(w)
    ELSE IF w.debug_assertions /\ w.device.textures[texture_id].format # "RGBAF32" THEN Panic(w)
    ELSE GlTexSubImage2d(BindTexture(w, DEFAULT_TEXTURE, texture_id),
                         texture_id.target, x0, y0, width, height, <<>>, TRUE)

\* bpp in Device::update_texture (not on ARM)
BytesPerPixel(format) ==
    CASE format = "A8" -> 1
      [] format = "RGB8" -> 3
      [] format = "BGRA8" -> 4
      [] format = "RG8" -> 2
      [] format = "RGBAF32" -> 16
      [] OTHER -> 0

\* update_texture taking a texture without storage as one of no bytes per texel
UpdateTextureOfAnyFormat(w, texture_id, x0, y0, width, height, stride, data) ==
    IF ~w.ok THEN w
    ELSE IF w.debug_assertions /\ ~w.device.inside_frame THEN Panic(w)
    ELSE IF texture_id \notin DOMAIN w.device.textures THEN Panic(w)
    ELSE
    LET bpp == BytesPerPixel(w.device.textures[texture_id].format)
        row_length == IF stride # <<>> THEN stride[1] \div bpp ELSE width
        \* u32 arithmetic: a negative value stands for one wrapped around 2^32
        len == bpp * row_length * (height - 1) + width * bpp
        RowLength(x, length) ==
            IF stride # <<>> THEN Gl(x, "pixel_store_i", "UNPACK_ROW_LENGTH", length) ELSE x
    IN IF (w.debug_assertions /\ height = 0) \/ len < 0 \/ len > data.len THEN Panic(w)
       ELSE RowLength(
                \* ghost: the log notes the length of the slice &data[0..len]
                \* that tex_sub_image_2d is given
                GlTexSubImage2d(Gl(BindTexture(RowLength(w, row_length),
                                               DEFAULT_TEXTURE, texture_id),
                                   "data", "", len),
                                texture_id.target, x0, y0, width, height,
                                [i \in 1..(width * height) |-> data.value], FALSE),
                0)

\* Device::update_texture; stride = <<>> is None.  data = [len, value]: a
\* slice of len bytes that encodes texels of one value.
UpdateTexture(w, texture_id, x0, y0, width, height, stride, data) ==
    IF ~w.ok THEN w
    ELSE IF w.debug_assertions /\ ~w.device.inside_frame THEN Panic(w)
    ELSE IF texture_id \notin DOMAIN w.device.textures THEN Panic(w)
    ELSE IF w.device.textures[texture_id].format = "Invalid" THEN Panic(w)
    ELSE
    LET bpp == BytesPerPixel(w.device.textures[texture_id].format)
        row_length == IF stride # <<>> THEN stride[1] \div bpp ELSE width
        \* u32 arithmetic: a negative value stands for one wrapped around 2^32
        len == bpp * row_length * (height - 1) + width * bpp
        RowLength(x, length) ==
            IF stride # <<>> THEN Gl(x, "pixel_store_i", "UNPACK_ROW_LENGTH", length) ELSE x
    IN IF (w.debug_assertions /\ height = 0) \/ len < 0 \/ len > data.len THEN Panic(w)
       ELSE RowLength(
                \* ghost: the log notes the length of the slice &data[0..len]
                \* that tex_sub_image_2d is given
                GlTexSubImage2d(Gl(BindTexture(RowLength(w, row_length),
                                               DEFAULT_TEXTURE, texture_id),
                                   "data", "", len),
                                texture_id.target, x0, y0, width, height,
                                [i \in 1..(width * height) |-> data.value], FALSE),
                0)

(***************************************************************************)
(* CacheTexture (renderer.rs): w.renderer.gpu_cache_texture is             *)
(* [texture_id, pbo_id, rows, cpu_blocks]; rows[i] is the is_dirty bit of  *)
(* row i - 1.  A GpuCacheUpdate::Copy is [block_index, block_count,        *)
(* address: [u, v]]; a GpuCacheUpdateList is [height, blocks, updates].    *)
(***************************************************************************)
\* CacheTexture::new
CacheTextureNew(w) ==
    LET Cache(w1) ==
            [w1 EXCEPT !.renderer.gpu_cache_texture =
                [texture_id |-> NewTextureId(w, "TEXTURE_2D"), pbo_id |-> w1.gl.gen.buffers,
                 rows |-> <<>>, cpu_blocks |-> <<>>]]
        \* Device::create_pbo: the id it returns is the buffer name generated
        CreatePbo(w0) == IF ~w0.ok THEN w0 ELSE GlGen(w0, "buffers")
    IN Cache(CreatePbo(CreateTextureIds(w, "TEXTURE_2D")))

\* CacheTexture::apply_patch
ApplyPatch(w, update, blocks) ==
    IF ~w.ok THEN w
    ELSE
    LET cache == w.renderer.gpu_cache_texture
        row == update.address.v
        added == IF Len(cache.rows) <= row THEN row + 1 - Len(cache.rows) ELSE 0
        rows == [i \in 1..(Len(cache.rows) + added) |->
                    IF i = row + 1 THEN TRUE
                    ELSE IF i <= Len(cache.rows) THEN cache.rows[i] ELSE FALSE]
        grown == cache.cpu_blocks \o [i \in 1..(added * MAX_VERTEX_TEXTURE_WIDTH) |-> EmptyBlock]
        block_offset == row * MAX_VERTEX_TEXTURE_WIDTH + update.address.u
        cpu_blocks == [i \in 1..Len(grown) |->
                          IF i > block_offset /\ i <= block_offset + update.block_count
                          THEN blocks[update.block_index + i - block_offset]
                          ELSE grown[i]]
    IN IF block_offset + update.block_count > Len(grown) THEN Panic(w)
       ELSE IF update.block_count > 0 /\ update.block_index + update.block_count > Len(blocks)
       THEN Panic(w)
       ELSE [w EXCEPT !.renderer.gpu_cache_texture.rows = rows,
                      !.renderer.gpu_cache_texture.cpu_blocks = cpu_blocks]

\* CacheTexture::update that gives the texture the height of every list
CacheUpdateToListHeight(w, updates) ==
    IF ~w.ok THEN w
    ELSE
    LET cache == w.renderer.gpu_cache_texture
        current_dimensions == GetTextureDimensions(w, cache.texture_id)
        \* every row is dirty after a resize of a texture that had rows
        Resized(w1) ==
            IF current_dimensions[2] > 0
            THEN [w1 EXCEPT !.renderer.gpu_cache_texture.rows = [i \in DOMAIN @ |-> TRUE]]
            ELSE w1
        \* for update in &updates.updates
        RECURSIVE Patch(_, _)
        Patch(x, i) ==
            IF i > Len(updates.updates) \/ ~x.ok THEN x
            ELSE Patch(ApplyPatch(x, updates.updates[i], updates.blocks), i + 1)
    IN Patch(IF updates.height # current_dimensions[2]
             THEN Resized(InitTexture(w, cache.texture_id, MAX_VERTEX_TEXTURE_WIDTH,
                                      updates.height, "RGBAF32", "Nearest", ModeNone, <<>>))
             ELSE w,
             1)

\* CacheTexture::update
CacheUpdate(w, updates) ==
    IF ~w.ok THEN w
    ELSE
    LET cache == w.renderer.gpu_cache_texture
        current_dimensions == GetTextureDimensions(w, cache.texture_id)
        \* every row is dirty after a resize of a texture that had rows
        Resized(w1) ==
            IF current_dimensions[2] > 0
            THEN [w1 EXCEPT !.renderer.gpu_cache_texture.rows = [i \in DOMAIN @ |-> TRUE]]
            ELSE w1
        \* for update in &updates.updates
        RECURSIVE Patch(_, _)
        Patch(x, i) ==
            IF i > Len(updates.updates) \/ ~x.ok THEN x
            ELSE Patch(ApplyPatch(x, updates.updates[i], updates.blocks), i + 1)
    IN Patch(IF updates.height > current_dimensions[2]
             THEN Resized(InitTexture(w, cache.texture_id, MAX_VERTEX_TEXTURE_WIDTH,
                                      updates.height, "RGBAF32", "Nearest", ModeNone, <<>>))
             ELSE w,
             1)

\* CacheTexture::flush, the loop over the rows
FlushRows(w) ==
    LET cache == w.renderer.gpu_cache_texture
        FlushRow(x, row_index) ==
            IF ~x.ok \/ ~x.renderer.gpu_cache_texture.rows[row_index + 1] THEN x
            ELSE LET block_index == row_index * MAX_VERTEX_TEXTURE_WIDTH
                     cpu_blocks == SubSeq(cache.cpu_blocks, block_index + 1,
                                          block_index + MAX_VERTEX_TEXTURE_WIDTH)
                     Clean(x3) ==
                         IF x3.ok
                         THEN [x3 EXCEPT !.renderer.gpu_cache_texture.rows[row_index + 1] = FALSE]
                         ELSE x3
                 IN Clean(OrphanPbo(
                              UpdateTextureFromPbo(UpdatePboData(x, cpu_blocks),
                                                   cache.texture_id, 0, row_index,
                                                   MAX_VERTEX_TEXTURE_WIDTH, 1),
                              MAX_VERTEX_TEXTURE_WIDTH))
        \* for (row_index, row) in self.rows.iter_mut().enumerate()
        RECURSIVE Rows(_, _)
        Rows(x, row_index) ==
            IF row_index >= Len(cache.rows) \/ ~x.ok THEN x
            ELSE Rows(FlushRow(x, row_index), row_index + 1)
    IN Rows(w, 0)

\* flush that leaves its pixel buffer bound
FlushLeavesPboBound(w) ==
    FlushRows(BindPbo(w, w.renderer.gpu_cache_texture.pbo_id))

\* CacheTexture::flush
Flush(w) ==
    BindPbo(FlushRows(BindPbo(w, w.renderer.gpu_cache_texture.pbo_id)), 0)

(***************************************************************************)
(* Renderer (renderer.rs).  An external image is named by a key that       *)
(* stands for its (ExternalImageId, channel_index).                        *)
(***************************************************************************)
\* What ExternalImageHandler::lock returns for a key: raw data for the
\* external buffer, a native texture for the others.
BufferKeys == {3}

\* The keys, in the order unlock_external_images drains the map.
ExternalKeys == <<1, 2, 3>>

NativeTextureOf(key) == 50 + key

\* An ExternalImageHandler whose unlock is never called.
HandlerCallWithoutUnlock(w, op, key) ==
    IF op = "unlock" THEN w
    ELSE [w EXCEPT !.handler.locks[key] = @ + 1, !.log = Append(@, G(op, "", key))]

\* ExternalImageHandler::lock / unlock, called by the renderer
HandlerCall(w, op, key) ==
    [w EXCEPT !.handler.locks[key] = IF op = "lock" THEN @ + 1 ELSE @ - 1,
              !.log = Append(@, G(op, "", key))]

\* One TextureUpdate of Renderer::update_texture_cache.  update is
\* [id, op, width, height, format, filter, mode, source, key, data, offset, stride].
ApplyTextureUpdateOp(w, update) ==
    IF ~w.ok THEN w
    ELSE
    LET map == w.renderer.cache_texture_id_map
        known == update.id + 1 \in DOMAIN map
        texture_id == map[update.id + 1]
        Sliced(d) == [len |-> d.len - update.offset, value |-> d.value]
        Unlock(x) == IF x.ok THEN HandlerCall(x, "unlock", update.key) ELSE x
    IN CASE update.op = "Create" ->
              LET pixels == [i \in 1..(update.width * update.height) |-> update.data.value]
                  InitWith(x, data) ==
                      InitTexture(x, x.renderer.cache_texture_id_map[update.id + 1],
                                  update.width, update.height, update.format,
                                  update.filter, update.mode, data)
                  Create(w1) ==
                      IF update.id + 1 \notin DOMAIN w1.renderer.cache_texture_id_map
                      THEN Panic(w1)
                      ELSE CASE update.source = "None" -> InitWith(w1, <<>>)
                             [] update.source = "Raw" -> InitWith(w1, pixels)
                             [] update.source = "ExternalBuffer" ->
                                  IF ~w1.handler.present THEN Panic(w1)
                                  ELSE IF update.key \notin BufferKeys
                                  THEN Panic(HandlerCall(w1, "lock", update.key))
                                  ELSE Unlock(InitWith(HandlerCall(w1, "lock", update.key),
                                                       pixels))
                             [] OTHER -> Panic(w1)
              IN Create(IF Len(map) = update.id
                        THEN [CreateTextureIds(w, "TEXTURE_2D") EXCEPT
                                 !.renderer.cache_texture_id_map =
                                     Append(@, NewTextureId(w, "TEXTURE_2D"))]
                        ELSE w)
         [] update.op = "Grow" ->
              IF ~known THEN Panic(w)
              ELSE ResizeTexture(w, texture_id, update.width, update.height, update.format,
                                 update.filter, update.mode)
         [] update.op = "Update" ->
              IF ~known \/ update.offset > update.data.len THEN Panic(w)
              ELSE UpdateTexture(w, texture_id, 0, 0, update.width, update.height,
                                 update.stride, Sliced(update.data))
         [] update.op = "UpdateForExternalBuffer" ->
              IF ~w.handler.present \/ ~known THEN Panic(w)
              ELSE IF update.key \notin BufferKeys \/ update.offset > update.data.len
              THEN Panic(HandlerCall(w, "lock", update.key))
              ELSE Unlock(UpdateTexture(HandlerCall(w, "lock", update.key), texture_id, 0, 0,
                                        update.width, update.height, update.stride,
                                        Sliced(update.data)))
         [] OTHER ->
              IF ~known THEN Panic(w) ELSE DeinitTexture(w, texture_id)

\* The loop body, forgetting the handle of a cache id as the id is freed
ApplyTextureUpdateForgettingFreed(w, update) ==
    IF ~w.ok THEN w
    ELSE LET x == ApplyTextureUpdateOp(
                      [w EXCEPT !.log = Append(@, G("texture_update", update.op,
                                                    IF w.device.inside_frame THEN 1 ELSE 0))],
                      update)
         IN IF update.op = "Free" /\ x.ok
            THEN [x EXCEPT !.renderer.cache_texture_id_map = SubSeq(@, 1, update.id)]
            ELSE x

\* The loop body of Renderer::update_texture_cache; the log records that the
\* op reaches the device, and whether the device is inside a frame then.
ApplyTextureUpdate(w, update) ==
    IF ~w.ok THEN w
    ELSE ApplyTextureUpdateOp(
             [w EXCEPT !.log = Append(@, G("texture_update", update.op,
                                           IF w.device.inside_frame THEN 1 ELSE 0))],
             update)

\* update_texture_cache: for update in update_list.updates, from the i-th on
RECURSIVE ApplyTextureUpdates(_, _, _)
ApplyTextureUpdates(w, update_list, i) ==
    IF i > Len(update_list) \/ ~w.ok THEN w
    ELSE ApplyTextureUpdates(ApplyTextureUpdate(w, update_list[i]), update_list, i + 1)

\* update_texture_cache: for update_list in pending_updates.drain(..), from
\* the j-th on
RECURSIVE ApplyTextureUpdateLists(_, _, _)
ApplyTextureUpdateLists(w, pending_updates, j) ==
    IF j > Len(pending_updates) \/ ~w.ok THEN w
    ELSE ApplyTextureUpdateLists(ApplyTextureUpdates(w, pending_updates[j], 1),
                                 pending_updates, j + 1)

\* Renderer::update_texture_cache
UpdateTextureCache(w) ==
    IF ~w.ok THEN w
    ELSE ApplyTextureUpdateLists([w EXCEPT !.renderer.pending_texture_updates = <<>>],
                                 w.renderer.pending_texture_updates, 1)

\* Renderer::update_deferred_resolves.  A deferred resolve is
\* [key, image_type, address]; the image's uv rectangle is one block, `key`.
UpdateDeferredResolves(w, frame) ==
    IF ~w.ok \/ frame.deferred_resolves = <<>> THEN w
    ELSE IF ~w.handler.present THEN Panic(w)
    ELSE
    LET Resolve(x, deferred_resolve) ==
            IF ~x.ok THEN x
            ELSE
            LET key == deferred_resolve.key
                x1 == HandlerCall(x, "lock", key)
                texture_target ==
                    CASE deferred_resolve.image_type = "Texture2DHandle" -> "TEXTURE_2D"
                      [] deferred_resolve.image_type = "TextureRectHandle" -> "TEXTURE_RECTANGLE"
                      [] deferred_resolve.image_type = "TextureExternalHandle" -> "TEXTURE_EXTERNAL_OES"
                      [] OTHER -> ""
                texture_id == TextureId(NativeTextureOf(key), texture_target)
                x2 == [x1 EXCEPT !.renderer.external_images =
                          [k \in DOMAIN @ \cup {key} |-> IF k = key THEN texture_id ELSE @[k]]]
                update == [block_index |-> 0, block_count |-> 1,
                           address |-> deferred_resolve.address]
            \* the block [u0, v0, u1, v1] of the image locked is named by its key
            IN IF texture_target = "" \/ key \in BufferKeys THEN Panic(x1)
               ELSE ApplyPatch(x2, update, <<key>>)
        \* for deferred_resolve in &frame.deferred_resolves
        RECURSIVE Resolves(_, _)
        Resolves(x, i) ==
            IF i > Len(frame.deferred_resolves) \/ ~x.ok THEN x
            ELSE Resolves(Resolve(x, frame.deferred_resolves[i]), i + 1)
    IN Resolves(w, 1)

\* unlock_external_images with the drain forgotten
UnlockExternalImagesSkipped(w) == w

\* Renderer::unlock_external_images
UnlockExternalImages(w) ==
    IF ~w.ok \/ DOMAIN w.renderer.external_images = {} THEN w
    ELSE IF ~w.handler.present THEN Panic(w)
    ELSE LET keys == DOMAIN w.renderer.external_images
             \* for (ext_data, _) in self.external_images.drain()
             RECURSIVE Drain(_, _)
             Drain(x, i) ==
                 IF i > Len(ExternalKeys) \/ ~x.ok THEN x
                 ELSE Drain(IF ExternalKeys[i] \in keys
                            THEN HandlerCall(x, "unlock", ExternalKeys[i]) ELSE x,
                            i + 1)
         IN Drain([w EXCEPT !.renderer.external_images = <<>>], 1)

\* Renderer::update_gpu_cache that resolves before applying the queued lists.
UpdateGpuCacheResolvingFirst(w, frame) ==
    IF ~w.ok THEN w
    ELSE
    LET pending == w.renderer.pending_gpu_cache_updates
        RECURSIVE Lists(_, _)
        Lists(x, i) ==
            IF i > Len(pending) \/ ~x.ok THEN x
            ELSE Lists(CacheUpdate([x EXCEPT !.log = Append(@, G("update_list", "",
                                                                 pending[i].id))],
                                   pending[i]), i + 1)
    IN Flush(Lists(UpdateDeferredResolves(
                       [w EXCEPT !.renderer.pending_gpu_cache_updates = <<>>], frame), 1))

\* Renderer::update_gpu_cache
UpdateGpuCache(w, frame) ==
    IF ~w.ok THEN w
    ELSE
    LET pending == w.renderer.pending_gpu_cache_updates
        \* for update_list in self.pending_gpu_cache_updates.drain(..)
        RECURSIVE Lists(_, _)
        Lists(x, i) ==
            IF i > Len(pending) \/ ~x.ok THEN x
            ELSE Lists(CacheUpdate([x EXCEPT !.log = Append(@, G("update_list", "",
                                                                 pending[i].id))],
                                   pending[i]), i + 1)
    IN Flush(UpdateDeferredResolves(
                 Lists([w EXCEPT !.renderer.pending_gpu_cache_updates = <<>>], 1), frame))

\* SourceTexture and BatchTextures
SourceTexture(kind, arg) == [kind |-> kind, arg |-> arg]

NoTexture == [i \in 1..3 |-> SourceTexture("Invalid", 0)]

\* Renderer::resolve_source_texture; a texture named -1 when it panics.
ResolveSourceTexture(w, source) ==
    CASE source.kind = "WebGL" -> TextureId(source.arg, "TEXTURE_2D")
      [] source.kind = "External" ->
           IF source.arg \in DOMAIN w.renderer.external_images
           THEN w.renderer.external_images[source.arg] ELSE TextureId(-1, "TEXTURE_2D")
      [] source.kind = "TextureCache" ->
           IF source.arg + 1 \in DOMAIN w.renderer.cache_texture_id_map
           THEN w.renderer.cache_texture_id_map[source.arg + 1] ELSE TextureId(-1, "TEXTURE_2D")
      [] OTHER -> InvalidTextureId

\* The driver compiles and links every shader of the program.
Compiles == [vs |-> TRUE, fs |-> TRUE, link |-> TRUE]

\* LazilyCompiledShader::get that creates a program at every call.
ShaderGetAlwaysCreating(w, name, status) ==
    LET created == CreateProgramWithPrefix(w, status.vs, status.fs, status.link)
    IN IF created.result = "Ok" /\ created.w.ok
       THEN [created EXCEPT !.w.renderer.programs[name] = w.gl.gen.programs + 1]
       ELSE created

\* LazilyCompiledShader::get: the program of the shader `name`, created by
\* create_prim_shader or create_clip_shader when the shader has none (0);
\* status is what the driver reports for the compilation.  Gives the device
\* and "Ok" or the error.
ShaderGet(w, name, status) ==
    LET Store(created) ==
            IF created.result = "Ok" /\ created.w.ok
            THEN [created EXCEPT !.w.renderer.programs[name] = w.gl.gen.programs + 1]
            ELSE created
    IN IF ~w.ok THEN [w |-> w, result |-> ""]
       ELSE IF w.renderer.programs[name] # 0 THEN [w |-> w, result |-> "Ok"]
       ELSE Store(CreateProgramWithPrefix(w, status.vs, status.fs, status.link))

\* LazilyCompiledShader::bind (and PrimitiveShader::bind): gets the program,
\* which must succeed, binds it and sets its uniforms.
ShaderBind(w, name, status) ==
    LET Bind(w1) == BindProgram(w1, w1.renderer.programs[name])
        SetUniforms(w2) ==
            IF ~w2.ok THEN w2
            ELSE IF w2.debug_assertions /\ ~w2.device.inside_frame THEN Panic(w2)
            ELSE Gl(w2, "uniform", name, 0)
        \* self.get(device).unwrap()
        Unwrap(got) ==
            IF ~got.w.ok THEN got.w
            ELSE IF got.result # "Ok" THEN Panic(got.w)
            ELSE SetUniforms(Bind(got.w))
    IN Unwrap(ShaderGet(w, name, status))

\* Renderer::draw_instanced_batch: `count` instances
DrawInstancedBatch(w, count, vao, colors) ==
    LET Color(x, i) ==
            IF ~x.ok THEN x
            ELSE LET texture_id == ResolveSourceTexture(x, colors[i])
                 IN IF texture_id.name = -1 THEN Panic(x)
                    ELSE BindTexture(x, TextureSampler.Color0 + i - 1, texture_id)
        Dither(w1) ==
            IF w.renderer.dither_matrix_texture_id # <<>>
            THEN BindTexture(w1, TextureSampler.Dither, w.renderer.dither_matrix_texture_id[1])
            ELSE w1
        \* for i in 0..textures.colors.len()
        RECURSIVE Colors(_, _)
        Colors(x, i) ==
            IF i > Len(colors) \/ ~x.ok THEN x ELSE Colors(Color(x, i), i + 1)
        \* for i in 0..data.len()
        RECURSIVE Each(_, _)
        Each(x, i) ==
            IF i >= count \/ ~x.ok THEN x ELSE Each(Gl(x, "draw_triangles", "", 1), i + 1)
        Draw(w2) ==
            IF ~w2.ok THEN w2
            ELSE IF w.renderer.enable_batcher
            THEN Gl(w2, "draw_indexed_triangles_instanced", "", count)
            ELSE Each(w2, 0)
    IN Draw(Dither(Colors(BindVao(w, vao), 1)))

\* The shader Renderer::submit_batch binds for a batch
BatchShader(batch) ==
    CASE batch.kind = "Composite" -> "ps_composite"
      [] batch.kind = "HardwareComposite" -> "ps_hw_composite"
      [] batch.kind = "SplitComposite" -> "ps_split_composite"
      [] batch.kind = "Blend" -> "ps_blend"
      [] batch.kind = "Rectangle" ->
           IF batch.needs_clipping THEN "ps_rectangle_clip" ELSE "ps_rectangle"
      [] batch.kind = "TextRun" ->
           IF batch.blend_mode = "Subpixel" THEN "ps_text_run_subpixel" ELSE "ps_text_run"
      [] OTHER -> "ps_image"

\* The rectangles of the readback blit without the flip for the framebuffer
CompositeRectsUnflipped(backdrop, readback, source, render_target, target_dimensions) ==
    [src |-> <<backdrop[1] - backdrop[5] + source[5], backdrop[2] - backdrop[6] + source[6],
               readback[3], readback[4]>>,
     dest |-> <<readback[1], readback[2], readback[3], readback[4]>>]

\* submit_batch, Composite: the rectangles of the readback blit.  A
\* RenderTaskData is its data array, data[k] being element k + 1; the
\* rectangles are <<x, y, width, height>>.
CompositeRects(backdrop, readback, source, render_target, target_dimensions) ==
    LET src_x == backdrop[1] - backdrop[5] + source[5]
        src_y == backdrop[2] - backdrop[6] + source[6]
        dest_x == readback[1]
        dest_y == readback[2]
        width == readback[3]
        height == readback[4]
    IN IF render_target = <<>>
       THEN [src |-> <<src_x, target_dimensions[2] - height - src_y, width, height>>,
             dest |-> <<dest_x, dest_y + height, width, 0 - height>>]
       ELSE [src |-> <<src_x, src_y, width, height>>,
             dest |-> <<dest_x, dest_y, width, height>>]

\* Device::blit_render_target with a source rectangle
BlitRenderTarget(w, src_texture, src_rect, dest_rect) ==
    IF ~w.ok THEN w
    ELSE IF w.debug_assertions /\ ~w.device.inside_frame THEN Panic(w)
    ELSE Gl(BindReadTarget(w, src_texture), "blit_framebuffer", "",
            <<src_rect[1], src_rect[2], src_rect[1] + src_rect[3], src_rect[2] + src_rect[4],
              dest_rect[1], dest_rect[2], dest_rect[1] + dest_rect[3],
              dest_rect[2] + dest_rect[4]>>)

\* The readback of a Composite batch that leaves the cache texture bound
CompositeReadbackKeepingCacheTarget(w, batch, cache_texture, render_target, target_dimensions) ==
    IF ~w.ok \/ batch.kind # "Composite" THEN w
    ELSE IF w.debug_assertions /\ batch.instances # 1 THEN Panic(w)
    ELSE LET tasks == batch.tasks
             rects == CompositeRects(tasks.backdrop, tasks.readback, tasks.source,
                                     render_target, target_dimensions)
         IN BlitRenderTarget(
                BindDrawTarget(w, <<cache_texture, tasks.readback[5]>>,
                               GetTextureDimensions(w, cache_texture)),
                render_target, rects.src, rects.dest)

\* submit_batch: the readback of a Composite batch
CompositeReadback(w, batch, cache_texture, render_target, target_dimensions) ==
    IF ~w.ok \/ batch.kind # "Composite" THEN w
    ELSE IF w.debug_assertions /\ batch.instances # 1 THEN Panic(w)
    ELSE LET tasks == batch.tasks
             rects == CompositeRects(tasks.backdrop, tasks.readback, tasks.source,
                                     render_target, target_dimensions)
         IN BindDrawTarget(
                BlitRenderTarget(
                    BindDrawTarget(w, <<cache_texture, tasks.readback[5]>>,
                                   GetTextureDimensions(w, cache_texture)),
                    render_target, rects.src, rects.dest),
                render_target, target_dimensions)

\* Renderer::submit_batch.  batch is [kind, blend_mode, needs_clipping,
\* colors, instances, tasks]; tasks are the RenderTaskData the instance of a
\* Composite batch names: [backdrop, readback, source].
SubmitBatch(w, batch, cache_texture, render_target, target_dimensions) ==
    IF ~w.ok THEN w
    ELSE IF w.debug_assertions /\ batch.needs_clipping /\ batch.blend_mode = "None" THEN Panic(w)
    ELSE DrawInstancedBatch(
             CompositeReadback(ShaderBind(w, BatchShader(batch), Compiles), batch, cache_texture,
                               render_target, target_dimensions),
             batch.instances, w.renderer.prim_vao_id, batch.colors)

\* Device::clear_target / clear_target_rect with a colour or a depth to clear
ClearTarget(w, scissored) ==
    IF scissored
    THEN GlCalls(w, <<G("enable", "SCISSOR_TEST", 0), G("scissor", "", 0),
                      G("clear", "", 0), G("disable", "SCISSOR_TEST", 0)>>)
    ELSE Gl(w, "clear", "", 0)

\* set_blend that sets the blend mode and leaves GL_BLEND as it is
SetBlendModeOnly(w, enable, mode) ==
    GlCalls(w, IF mode = "" THEN <<>> ELSE <<G("blend_func", mode, 0)>>)

\* Device::set_blend(enable) followed by the blend mode, if any
SetBlend(w, enable, mode) ==
    GlCalls(w, <<G(IF enable THEN "enable" ELSE "disable", "BLEND", 0)>>
               \o IF mode = "" THEN <<>> ELSE <<G("blend_func", mode, 0)>>)

\* The blend mode switch that compares the variants and not their colours
SwitchBlendModeByVariant(w, batch, prev_blend_mode) ==
    IF ~w.ok \/ batch.blend_mode = prev_blend_mode.blend_mode THEN w
    ELSE CASE batch.blend_mode = "None" -> SetBlend(w, FALSE, "")
           [] batch.blend_mode = "Alpha" -> SetBlend(w, TRUE, "alpha")
           [] batch.blend_mode = "PremultipliedAlpha" -> SetBlend(w, TRUE, "premultiplied_alpha")
           [] OTHER -> Gl(Gl(SetBlend(w, TRUE, ""), "blend_color", "", batch.blend_color),
                          "blend_func", "subpixel", 0)

\* Renderer::draw_color_target, the head of the loop over the alpha batches:
\* if batch.key.blend_mode != prev_blend_mode, the blend state is set for the
\* mode of the batch.  A blend mode is [blend_mode, blend_color]: the variant
\* and the colour that Subpixel(color) carries, 0 for the other variants.
\* set_blend_mode_subpixel(color) is blend_color, then blend_func.
SwitchBlendMode(w, batch, prev_blend_mode) ==
    IF ~w.ok \/ (/\ batch.blend_mode = prev_blend_mode.blend_mode
                 /\ batch.blend_color = prev_blend_mode.blend_color) THEN w
    ELSE CASE batch.blend_mode = "None" -> SetBlend(w, FALSE, "")
           [] batch.blend_mode = "Alpha" -> SetBlend(w, TRUE, "alpha")
           [] batch.blend_mode = "PremultipliedAlpha" -> SetBlend(w, TRUE, "premultiplied_alpha")
           [] OTHER -> Gl(Gl(SetBlend(w, TRUE, ""), "blend_color", "", batch.blend_color),
                          "blend_func", "subpixel", 0)

\* Renderer::draw_color_target.  target is [vertical_blurs, horizontal_blurs,
\* box_shadow_cache_prims, text_run_cache_prims, line_cache_prims: counts,
\* text_run_textures, opaque_batches, alpha_batches].
DrawColorTarget(w, render_target, target, target_size, color_cache_texture, clear_color) ==
    LET Cached(x, count, blend, mode, shader, vao, colors) ==
            IF count = 0 \/ ~x.ok THEN x
            ELSE DrawInstancedBatch(ShaderBind(SetBlend(x, blend, mode), shader, Compiles),
                                    count, vao, colors)
        prim == w.renderer.prim_vao_id
        \* depth state and blend mode of the target
        Setup(w1) ==
            IF ~w1.ok THEN w1
            ELSE SetBlend(GlCalls(w1, <<G("disable", "DEPTH_TEST", 0), G("depth_mask", "", 1)>>),
                          FALSE, "alpha")
        Clear(w2) ==
            IF ~w2.ok THEN w2
            ELSE Gl(IF render_target # <<>> /\ w.renderer.enable_clear_scissor
                    THEN ClearTarget(w2, TRUE)
                    ELSE IF clear_color THEN ClearTarget(w2, FALSE)
                    ELSE Gl(Gl(w2, "clear_depth", "", 1), "clear", "", 0),
                    "depth_mask", "", 0)
        Blur(b, count) ==
            IF count > 0 /\ b.ok
            THEN DrawInstancedBatch(b, count, w.renderer.blur_vao_id, NoTexture)
            ELSE b
        Blurs(w3) ==
            IF target.vertical_blurs + target.horizontal_blurs = 0 \/ ~w3.ok THEN w3
            ELSE Blur(Blur(ShaderBind(SetBlend(w3, FALSE, ""), "cs_blur", Compiles),
                           target.vertical_blurs),
                      target.horizontal_blurs)
        Caches(w4) ==
            Cached(Cached(Cached(w4, target.box_shadow_cache_prims, FALSE, "", "cs_box_shadow",
                                 prim, NoTexture),
                          target.text_run_cache_prims, TRUE, "alpha", "cs_text_run", prim,
                          target.text_run_textures),
                   target.line_cache_prims, TRUE, "alpha", "cs_line", prim, NoTexture)
        Submit(x, batch) == SubmitBatch(x, batch, color_cache_texture, render_target, target_size)
        Alpha(x, i) ==
            LET batch == target.alpha_batches[i]
                prev_blend_mode ==
                    IF i = 1 THEN [blend_mode |-> "None", blend_color |-> 0]
                    ELSE [blend_mode |-> target.alpha_batches[i - 1].blend_mode,
                          blend_color |-> target.alpha_batches[i - 1].blend_color]
                x1 == SwitchBlendMode(x, batch, prev_blend_mode)
            IN Submit(x1, batch)
        \* for batch in target.alpha_batcher.batch_list.opaque_batches.iter().rev()
        RECURSIVE Opaques(_, _)
        Opaques(x, i) ==
            IF i < 1 \/ ~x.ok THEN x
            ELSE Opaques(Submit(x, target.opaque_batches[i]), i - 1)
        \* for batch in &target.alpha_batcher.batch_list.alpha_batches
        RECURSIVE Alphas(_, _)
        Alphas(x, i) ==
            IF i > Len(target.alpha_batches) \/ ~x.ok THEN x ELSE Alphas(Alpha(x, i), i + 1)
        Opaque(w7) ==
            Opaques(GlCalls(SetBlend(w7, FALSE, ""),
                            <<G("depth_func", "LEQUAL", 0), G("enable", "DEPTH_TEST", 0),
                              G("depth_mask", "", 1)>>),
                    Len(target.opaque_batches))
        DepthWriteOff(a2) == Gl(a2, "depth_mask", "", 0)
        Finish(a4) == SetBlend(Gl(a4, "disable", "DEPTH_TEST", 0), FALSE, "")
        Batches(w7) ==
            IF ~w7.ok \/ (target.opaque_batches = <<>> /\ target.alpha_batches = <<>>) THEN w7
            ELSE Finish(Alphas(DepthWriteOff(Opaque(w7)), 1))
    IN Batches(Caches(Blurs(Clear(Setup(BindDrawTarget(w, render_target, target_size))))))

\* Renderer::draw_alpha_target.  target is [border_clears, borders,
\* rectangles: counts, images: a sequence of [mask, count]].
DrawAlphaTarget(w, render_target, target, target_size) ==
    LET vao == w.renderer.clip_vao_id
        Clip(x, count, shader, colors) ==
            IF count = 0 \/ ~x.ok THEN x
            ELSE DrawInstancedBatch(ShaderBind(x, shader, Compiles), count, vao, colors)
        Clear(w1) ==
            IF ~w1.ok THEN w1
            ELSE ClearTarget(GlCalls(w1, <<G("disable", "DEPTH_TEST", 0),
                                           G("depth_mask", "", 0)>>), TRUE)
        BorderClears(w2) ==
            IF target.border_clears = 0 \/ ~w2.ok THEN w2
            ELSE Clip(SetBlend(w2, FALSE, ""), target.border_clears, "cs_clip_border", NoTexture)
        Borders(w3) ==
            IF target.borders = 0 \/ ~w3.ok THEN w3
            ELSE Clip(SetBlend(w3, TRUE, "max"), target.borders, "cs_clip_border", NoTexture)
        Multiply(w4) == IF ~w4.ok THEN w4 ELSE SetBlend(w4, TRUE, "multiply")
        \* for (mask_texture_id, items) in target.clip_batcher.images.iter()
        RECURSIVE Images(_, _)
        Images(x, i) ==
            IF i > Len(target.images) \/ ~x.ok THEN x
            ELSE Images(DrawInstancedBatch(ShaderBind(x, "cs_clip_image", Compiles),
                                           target.images[i].count, vao,
                                           <<target.images[i].mask, SourceTexture("Invalid", 0),
                                             SourceTexture("Invalid", 0)>>),
                        i + 1)
    IN Images(Clip(Multiply(Borders(BorderClears(
                       Clear(BindDrawTarget(w, render_target, target_size))))),
                   target.rectangles, "cs_clip_rectangle", NoTexture),
              1)

\* tiling::RenderPass::required_target_count
RequiredTargetCount(pass, kind) ==
    IF kind = "Color" THEN Len(pass.color_targets) ELSE Len(pass.alpha_targets)

\* tiling::RenderPass::needs_render_target_kind
NeedsRenderTargetKind(pass, kind) ==
    ~pass.is_framebuffer /\ RequiredTargetCount(pass, kind) > 0

\* GpuDataTexture::init without the loop that pads the vector to a whole row.
GpuDataTextureInitUnpadded(w, id, field, texels_per_item) ==
    LET data == w.frame[field]
        texture_width == MAX_VERTEX_TEXTURE_WIDTH - (MAX_VERTEX_TEXTURE_WIDTH % texels_per_item)
        items_per_row == texture_width \div texels_per_item
    IN IF ~w.ok \/ data = <<>> THEN w
       ELSE IF texture_width = 0 THEN Panic(w)
       ELSE InitTexture(w, id, texture_width, Len(data) \div items_per_row,
                        "RGBAF32", "Nearest", ModeNone,
                        [i \in 1..(Len(data) * texels_per_item) |->
                            data[((i - 1) \div texels_per_item) + 1]])

\* GpuDataTexture::init for the vertex data layout on the vector
\* frame[field], whose items take texels_per_item RGBAF32 texels each (an item
\* is one value, repeated over its texels).  The vector is padded in place
\* with default items up to a whole row and uploaded as one texture.
GpuDataTextureInit(w, id, field, texels_per_item) ==
    LET data == w.frame[field]
        texture_width == MAX_VERTEX_TEXTURE_WIDTH - (MAX_VERTEX_TEXTURE_WIDTH % texels_per_item)
        items_per_row == texture_width \div texels_per_item
        \* while data.len() % items_per_row != 0 { data.push(T::default()) }
        RECURSIVE Pad(_)
        Pad(v) == IF Len(v) % items_per_row # 0 THEN Pad(Append(v, EmptyBlock)) ELSE v
        padded == IF items_per_row # 0 THEN Pad(data) ELSE data
        height == IF items_per_row # 0 THEN Len(padded) \div items_per_row
                  ELSE Len(padded) * (texels_per_item \div texture_width)
    IN IF ~w.ok \/ data = <<>> THEN w
       \* rows_per_item divides by a texture width of zero
       ELSE IF texture_width = 0 THEN Panic(w)
       ELSE InitTexture([w EXCEPT !.frame[field] = padded], id, texture_width, height,
                        "RGBAF32", "Nearest", ModeNone,
                        [i \in 1..(Len(padded) * texels_per_item) |->
                            padded[((i - 1) \div texels_per_item) + 1]])

\* start_frame: the render target texture of one kind of a pass, if the pass
\* has one
InitRenderTarget(w, texture_id, format, filter, target_count) ==
    IF texture_id # <<>>
    THEN InitTexture(w, texture_id[1], w.frame.cache_size[1], w.frame.cache_size[2],
                     format, filter, ModeLayer(target_count), <<>>)
    ELSE w

\* start_frame: for pass in &frame.passes, the textures of the render targets
\* are initialised; here from pass i on
RECURSIVE InitRenderTargets(_, _)
InitRenderTargets(w, i) ==
    IF i > Len(w.frame.passes) \/ ~w.ok THEN w
    ELSE LET pass == w.frame.passes[i]
         IN InitRenderTargets(
                InitRenderTarget(
                    InitRenderTarget(w, pass.color_texture_id, "BGRA8", "Linear",
                                     RequiredTargetCount(pass, "Color")),
                    pass.alpha_texture_id, "A8", "Nearest",
                    RequiredTargetCount(pass, "Alpha")),
                i + 1)

\* start_frame that takes the first handle of a free list instead of the last
StartFrameTakingFirst(w) ==
    LET Assign(x, i) ==
            IF ~x.ok THEN x
            ELSE
            LET pass == x.frame.passes[i]
                Pop(y, kind) ==
                    LET field == IF kind = "Color" THEN "color_texture_id" ELSE "alpha_texture_id"
                        pool == IF kind = "Color" THEN "color_render_targets"
                                ELSE "alpha_render_targets"
                        free == y.renderer[pool]
                    IN IF ~NeedsRenderTargetKind(pass, kind) THEN y
                       ELSE IF free # <<>>
                       THEN [y EXCEPT !.renderer[pool] = Tail(free),
                                      !.frame.passes[i][field] = <<Head(free)>>]
                       ELSE [CreateTextureIds(y, "TEXTURE_2D_ARRAY") EXCEPT
                                !.frame.passes[i][field] = <<NewTextureId(y, "TEXTURE_2D_ARRAY")>>]
            IN IF x.debug_assertions
                  /\ (pass.color_texture_id # <<>> \/ pass.alpha_texture_id # <<>>)
               THEN Panic(x)
               ELSE Pop(Pop(x, "Color"), "Alpha")
        \* for pass in &mut frame.passes
        RECURSIVE AssignPasses(_, _)
        AssignPasses(x, i) ==
            IF i > Len(x.frame.passes) \/ ~x.ok THEN x ELSE AssignPasses(Assign(x, i), i + 1)
        textures == w.renderer.gpu_data_textures[w.renderer.gdt_index + 1]
        NextDataTextures(w4) ==
            IF ~w4.ok THEN w4
            ELSE [w4 EXCEPT !.renderer.gdt_index = (@ + 1) % GPU_DATA_TEXTURE_POOL]
    \* GpuDataTextures::init_frame is the two init calls and the two binds
    IN NextDataTextures(
           BindTexture(
               BindTexture(
                   GpuDataTextureInit(
                       GpuDataTextureInit(InitRenderTargets(AssignPasses(w, 1), 1),
                                          textures.layer_texture, "layer_texture_data", 1),
                       textures.render_task_texture, "render_task_data", 1),
                   TextureSampler.Layers, textures.layer_texture),
               TextureSampler.RenderTasks, textures.render_task_texture))

\* Renderer::start_frame on the frame being rendered, w.frame
StartFrame(w) ==
    LET Assign(x, i) ==
            IF ~x.ok THEN x
            ELSE
            LET pass == x.frame.passes[i]
                Pop(y, kind) ==
                    LET field == IF kind = "Color" THEN "color_texture_id" ELSE "alpha_texture_id"
                        pool == IF kind = "Color" THEN "color_render_targets"
                                ELSE "alpha_render_targets"
                        free == y.renderer[pool]
                    IN IF ~NeedsRenderTargetKind(pass, kind) THEN y
                       ELSE IF free # <<>>
                       THEN [y EXCEPT !.renderer[pool] = SubSeq(free, 1, Len(free) - 1),
                                      !.frame.passes[i][field] = <<free[Len(free)]>>]
                       ELSE [CreateTextureIds(y, "TEXTURE_2D_ARRAY") EXCEPT
                                !.frame.passes[i][field] = <<NewTextureId(y, "TEXTURE_2D_ARRAY")>>]
            IN IF x.debug_assertions
                  /\ (pass.color_texture_id # <<>> \/ pass.alpha_texture_id # <<>>)
               THEN Panic(x)
               ELSE Pop(Pop(x, "Color"), "Alpha")
        \* for pass in &mut frame.passes
        RECURSIVE AssignPasses(_, _)
        AssignPasses(x, i) ==
            IF i > Len(x.frame.passes) \/ ~x.ok THEN x ELSE AssignPasses(Assign(x, i), i + 1)
        textures == w.renderer.gpu_data_textures[w.renderer.gdt_index + 1]
        NextDataTextures(w4) ==
            IF ~w4.ok THEN w4
            ELSE [w4 EXCEPT !.renderer.gdt_index = (@ + 1) % GPU_DATA_TEXTURE_POOL]
    \* GpuDataTextures::init_frame is the two init calls and the two binds
    IN NextDataTextures(
           BindTexture(
               BindTexture(
                   GpuDataTextureInit(
                       GpuDataTextureInit(InitRenderTargets(AssignPasses(w, 1), 1),
                                          textures.layer_texture, "layer_texture_data", 1),
                       textures.render_task_texture, "render_task_data", 1),
                   TextureSampler.Layers, textures.layer_texture),
               TextureSampler.RenderTasks, textures.render_task_texture))

\* draw_tile_frame: for (target_index, target) in
\* pass.alpha_targets.targets.iter().enumerate(), from the t-th target on
RECURSIVE DrawAlphaTargets(_, _, _, _)
DrawAlphaTargets(w, pass, size, t) ==
    IF t > Len(pass.alpha_targets) \/ ~w.ok THEN w
    ELSE DrawAlphaTargets(
             IF pass.alpha_texture_id = <<>> THEN Panic(w)
             ELSE DrawAlphaTarget(w, <<pass.alpha_texture_id[1], t - 1>>,
                                  pass.alpha_targets[t], size),
             pass, size, t + 1)

\* draw_tile_frame drawing the opaque batches of each colour target in list
\* order
RECURSIVE DrawColorTargetsOpaqueInListOrder(_, _, _, _, _, _)
DrawColorTargetsOpaqueInListOrder(w, pass, size, src_color_id, clear_color, t) ==
    IF t > Len(pass.color_targets) \/ ~w.ok THEN w
    ELSE DrawColorTargetsOpaqueInListOrder(
             DrawColorTarget(w,
                 IF pass.color_texture_id = <<>> THEN <<>>
                 ELSE <<pass.color_texture_id[1], t - 1>>,
                 [pass.color_targets[t] EXCEPT !.opaque_batches = Reverse(@)],
                 size, src_color_id, clear_color),
             pass, size, src_color_id, clear_color, t + 1)

\* draw_tile_frame: for (target_index, target) in
\* pass.color_targets.targets.iter().enumerate(), from the t-th target on
RECURSIVE DrawColorTargets(_, _, _, _, _, _)
DrawColorTargets(w, pass, size, src_color_id, clear_color, t) ==
    IF t > Len(pass.color_targets) \/ ~w.ok THEN w
    ELSE DrawColorTargets(
             DrawColorTarget(w,
                 IF pass.color_texture_id = <<>> THEN <<>>
                 ELSE <<pass.color_texture_id[1], t - 1>>,
                 pass.color_targets[t], size, src_color_id, clear_color),
             pass, size, src_color_id, clear_color, t + 1)

\* The body of the loop over the passes that drops the texture ids of the pass
\* instead of returning them to the pools
DrawPassDropsTargets(w, i, src_color_id, src_alpha_id, framebuffer_size, needs_clear) ==
    IF ~w.ok THEN w
    ELSE
    LET pass == w.frame.passes[i]
        size == IF pass.is_framebuffer THEN framebuffer_size ELSE w.frame.cache_size
        clear_color == ~pass.is_framebuffer \/ w.renderer.clear_framebuffer \/ needs_clear
        Release(x) ==
            IF ~x.ok THEN x
            ELSE [x EXCEPT !.frame.passes[i].color_texture_id = <<>>,
                           !.frame.passes[i].alpha_texture_id = <<>>]
    IN Release(DrawColorTargets(
                   DrawAlphaTargets(
                       BindTexture(BindTexture(w, TextureSampler.CacheA8, src_alpha_id),
                                   TextureSampler.CacheRGBA8, src_color_id),
                       pass, size, 1),
                   pass, size, src_color_id, clear_color, 1))

\* draw_tile_frame: the body of `for pass in &mut frame.passes` for pass i
DrawPass(w, i, src_color_id, src_alpha_id, framebuffer_size, needs_clear) ==
    IF ~w.ok THEN w
    ELSE
    LET pass == w.frame.passes[i]
        size == IF pass.is_framebuffer THEN framebuffer_size ELSE w.frame.cache_size
        clear_color == ~pass.is_framebuffer \/ w.renderer.clear_framebuffer \/ needs_clear
        \* the texture ids go back to the pool for the next frame
        Release(x) ==
            IF ~x.ok THEN x
            ELSE [x EXCEPT !.frame.passes[i].color_texture_id = <<>>,
                           !.frame.passes[i].alpha_texture_id = <<>>,
                           !.renderer.color_render_targets = @ \o pass.color_texture_id,
                           !.renderer.alpha_render_targets = @ \o pass.alpha_texture_id]
        \* ghost: the log notes where the body of the loop for pass i begins
        begun == [w EXCEPT !.log = Append(@, G("pass", "", i))]
    IN Release(DrawColorTargets(
                   DrawAlphaTargets(
                       BindTexture(BindTexture(begun, TextureSampler.CacheA8, src_alpha_id),
                                   TextureSampler.CacheRGBA8, src_color_id),
                       pass, size, 1),
                   pass, size, src_color_id, clear_color, 1))

\* draw_tile_frame: for pass in &mut frame.passes, from pass i on;
\* src_color_id and src_alpha_id are the targets of the pass before, or the
\* dummy cache texture.  (Before it: the loop with the two sources swapped.)
RECURSIVE DrawPasses(_, _, _, _, _, _)
DrawPassesSwappingSources(w, i, src_color_id, src_alpha_id, framebuffer_size, needs_clear) ==
    IF i > Len(w.frame.passes) \/ ~w.ok THEN w
    ELSE LET pass == w.frame.passes[i]
             dummy == w.renderer.dummy_cache_texture_id
         IN DrawPasses(DrawPass(w, i, src_color_id, src_alpha_id,
                                framebuffer_size, needs_clear),
                       i + 1,
                       IF pass.alpha_texture_id # <<>> THEN pass.alpha_texture_id[1] ELSE dummy,
                       IF pass.color_texture_id # <<>> THEN pass.color_texture_id[1] ELSE dummy,
                       framebuffer_size, needs_clear)

DrawPasses(w, i, src_color_id, src_alpha_id, framebuffer_size, needs_clear) ==
    IF i > Len(w.frame.passes) \/ ~w.ok THEN w
    ELSE LET pass == w.frame.passes[i]
             dummy == w.renderer.dummy_cache_texture_id
         IN DrawPasses(DrawPass(w, i, src_color_id, src_alpha_id,
                                framebuffer_size, needs_clear),
                       i + 1,
                       IF pass.color_texture_id # <<>> THEN pass.color_texture_id[1] ELSE dummy,
                       IF pass.alpha_texture_id # <<>> THEN pass.alpha_texture_id[1] ELSE dummy,
                       framebuffer_size, needs_clear)

\* draw_tile_frame without the reversal of the free lists at the end
DrawTileFrameNoReverse(w, framebuffer_size) ==
    IF ~w.ok THEN w
    ELSE
    LET needs_clear == w.frame.window_size[1] < framebuffer_size[1]
                       \/ w.frame.window_size[2] < framebuffer_size[2]
        dummy == w.renderer.dummy_cache_texture_id
        Prepare(x) ==
            SetBlend(GlCalls(x, <<G("depth_mask", "", 0), G("disable", "STENCIL_TEST", 0)>>),
                     FALSE, "")
    IN UnlockExternalImages(
           IF w.frame.passes = <<>>
           THEN ClearTarget(Prepare(w), FALSE)
           ELSE DrawPasses(StartFrame(Prepare(w)), 1, dummy, dummy,
                           framebuffer_size, needs_clear))

\* Renderer::draw_tile_frame on w.frame
DrawTileFrame(w, framebuffer_size) ==
    IF ~w.ok THEN w
    ELSE
    LET needs_clear == w.frame.window_size[1] < framebuffer_size[1]
                       \/ w.frame.window_size[2] < framebuffer_size[2]
        dummy == w.renderer.dummy_cache_texture_id
        Prepare(x) ==
            SetBlend(GlCalls(x, <<G("depth_mask", "", 0), G("disable", "STENCIL_TEST", 0)>>),
                     FALSE, "")
        Recycle(drawn) ==
            IF ~drawn.ok THEN drawn
            ELSE [drawn EXCEPT !.renderer.color_render_targets = Reverse(@),
                               !.renderer.alpha_render_targets = Reverse(@)]
    IN UnlockExternalImages(
           IF w.frame.passes = <<>>
           THEN ClearTarget(Prepare(w), FALSE)
           ELSE Recycle(DrawPasses(StartFrame(Prepare(w)), 1, dummy, dummy,
                                   framebuffer_size, needs_clear)))

\* Device::create_vao_with_vbos: the new vertex array is bound and unbound in
\* GL, past the bound_vao cache, and its record is kept by the device.  The id
\* it returns is w.gl.gen.vaos + 1.  (Every descriptor of the renderer has
\* instance attributes, so descriptor.bind binds both vertex buffers.)
CreateVaoWithVbos(w, main_vbo_id, instance_vbo_id, ibo_id, owns_vertices, owns_instances, owns_indices) ==
    IF ~w.ok THEN w
    ELSE IF w.debug_assertions /\ ~w.device.inside_frame THEN Panic(w)
    ELSE LET vao_id == w.gl.gen.vaos + 1
             vao == [ibo_id |-> ibo_id, main_vbo_id |-> main_vbo_id,
                     instance_vbo_id |-> instance_vbo_id,
                     owns_indices |-> owns_indices, owns_vertices |-> owns_vertices,
                     owns_instances |-> owns_instances]
         IN IF w.debug_assertions /\ vao_id \in DOMAIN w.device.vaos THEN Panic(w)
            ELSE [GlCalls(GlGen(w, "vaos"),
                          <<G("bind_vertex_array", "", vao_id),
                            G("bind_buffer", "ARRAY_BUFFER", main_vbo_id),
                            G("bind_buffer", "ARRAY_BUFFER", instance_vbo_id),
                            G("bind_buffer", "ELEMENT_ARRAY_BUFFER", ibo_id),
                            G("bind_vertex_array", "", 0)>>)
                     EXCEPT !.device.vaos =
                         [x \in DOMAIN @ \cup {vao_id} |-> IF x = vao_id THEN vao ELSE @[x]]]

\* Device::create_vao: three new buffers, all owned by the new vertex array
CreateVao(w) ==
    IF ~w.ok THEN w
    ELSE IF w.debug_assertions /\ ~w.device.inside_frame THEN Panic(w)
    ELSE CreateVaoWithVbos(GlGen(GlGen(GlGen(w, "buffers"), "buffers"), "buffers"),
                           w.gl.gen.buffers + 2, w.gl.gen.buffers + 3,
                           w.gl.gen.buffers + 1, TRUE, TRUE, TRUE)

\* create_vao_with_new_instances that has the new vertex array own all it uses
CreateVaoWithNewInstancesOwningAll(w, base_vao) ==
    IF ~w.ok THEN w
    ELSE IF w.debug_assertions /\ ~w.device.inside_frame THEN Panic(w)
    ELSE IF base_vao \notin DOMAIN w.device.vaos THEN Panic(w)
    ELSE CreateVaoWithVbos(GlGen(w, "buffers"),
                           w.device.vaos[base_vao].main_vbo_id, w.gl.gen.buffers + 1,
                           w.device.vaos[base_vao].ibo_id, TRUE, TRUE, TRUE)

\* Device::create_vao_with_new_instances: one new buffer for the instances; the
\* index and main vertex buffers are those of base_vao
CreateVaoWithNewInstances(w, base_vao) ==
    IF ~w.ok THEN w
    ELSE IF w.debug_assertions /\ ~w.device.inside_frame THEN Panic(w)
    ELSE IF base_vao \notin DOMAIN w.device.vaos THEN Panic(w)
    ELSE CreateVaoWithVbos(GlGen(w, "buffers"),
                           w.device.vaos[base_vao].main_vbo_id, w.gl.gen.buffers + 1,
                           w.device.vaos[base_vao].ibo_id, FALSE, TRUE, FALSE)

\* impl Drop for VAO, as the vertex array vao_id leaves the device's map
DropVao(w, vao_id) ==
    IF ~w.ok THEN w
    ELSE LET vao == w.device.vaos[vao_id]
             Owned(owns, id) == IF owns THEN <<G("delete_buffers", "", id)>> ELSE <<>>
         IN [GlCalls(w, <<G("delete_vertex_arrays", "", vao_id)>>
                            \o Owned(vao.owns_indices, vao.ibo_id)
                            \o Owned(vao.owns_vertices, vao.main_vbo_id)
                            \o Owned(vao.owns_instances, vao.instance_vbo_id))
                EXCEPT !.device.vaos = [x \in DOMAIN @ \ {vao_id} |-> @[x]]]

\* The frame local to render() while no frame is being rendered
NoFrame ==
    [passes |-> <<>>, deferred_resolves |-> <<>>, gpu_cache_updates |-> <<>>,
     window_size |-> <<0, 0>>, cache_size |-> <<0, 0>>,
     layer_texture_data |-> <<>>, render_task_data |-> <<>>]

ShaderNames ==
    {"cs_box_shadow", "cs_text_run", "cs_line", "cs_blur", "cs_clip_rectangle",
     "cs_clip_image", "cs_clip_border", "ps_rectangle", "ps_rectangle_clip", "ps_text_run",
     "ps_text_run_subpixel", "ps_image", "ps_blend", "ps_hw_composite", "ps_split_composite",
     "ps_composite"}

\* Renderer::new with the default RendererOptions, on a fresh Device::new
RendererNew(w) ==
    LET \* w1: the device inside its first frame
        DummyCacheTexture(w1) ==
            InitTexture(CreateTextureIds(w1, "TEXTURE_2D_ARRAY"),
                        NewTextureId(w1, "TEXTURE_2D_ARRAY"),
                        1, 1, "BGRA8", "Linear", ModeLayer(1), <<>>)
        DitherMatrixTexture(w2) ==
            InitTexture(CreateTextureIds(w2, "TEXTURE_2D"), NewTextureId(w2, "TEXTURE_2D"),
                        8, 8, "A8", "Nearest", ModeNone, [i \in 1..64 |-> 0])
        \* GpuDataTextures::new for each of the pool: two textures
        RECURSIVE GpuDataTextures(_, _)
        GpuDataTextures(x, i) ==
            IF i >= 2 * GPU_DATA_TEXTURE_POOL \/ ~x.ok THEN x
            ELSE GpuDataTextures(CreateTextureIds(x, "TEXTURE_2D"), i + 1)
        Vaos(w4) ==
            EndFrame(CreateVaoWithNewInstances(
                CreateVaoWithNewInstances(
                    Gl(BindVao(CreateVao(w4), w4.gl.gen.vaos + 1),
                       "buffer_data", "ARRAY_BUFFER", 0),
                    w4.gl.gen.vaos + 1),
                w4.gl.gen.vaos + 1))
        \* the Renderer value, from the handles created
        Fields(dummy_cache_texture_id, dither_matrix_texture_id, base, prim_vao_id) ==
            [current_frame |-> <<>>,
             pending_texture_updates |-> <<>>,
             pending_gpu_cache_updates |-> <<>>,
             pending_shader_updates |-> 0,
             programs |-> [n \in ShaderNames |-> 0],
             enable_batcher |-> TRUE,
             clear_framebuffer |-> TRUE,
             enable_clear_scissor |-> TRUE,
             color_render_targets |-> <<>>,
             alpha_render_targets |-> <<>>,
             prim_vao_id |-> prim_vao_id,
             blur_vao_id |-> prim_vao_id + 1,
             clip_vao_id |-> prim_vao_id + 2,
             gdt_index |-> 0,
             gpu_data_textures |->
                 [i \in 1..GPU_DATA_TEXTURE_POOL |->
                     [layer_texture |-> TextureId(base + 2 * i - 1, "TEXTURE_2D"),
                      render_task_texture |-> TextureId(base + 2 * i, "TEXTURE_2D")]],
             cache_texture_id_map |-> <<>>,
             dummy_cache_texture_id |-> dummy_cache_texture_id,
             dither_matrix_texture_id |-> <<dither_matrix_texture_id>>,
             external_images |-> <<>>,
             gpu_cache_texture |-> <<>>]
        GpuCache(w7) == IF w7.ok THEN CacheTextureNew(w7) ELSE w7
        \* the steps of Renderer::new, last first; each passes on the handles
        \* created so far: w4 has the data textures, w3 the dither matrix,
        \* w2 the dummy cache texture, w1 is the device inside its first frame
        Step4(dummy, dither, base, w4) ==
            GpuCache([Vaos(w4) EXCEPT
                         !.renderer = Fields(dummy, dither, base, w4.gl.gen.vaos + 1)])
        Step3(dummy, dither, w3) ==
            Step4(dummy, dither, w3.gl.gen.textures, GpuDataTextures(w3, 0))
        Step2(dummy, w2) ==
            Step3(dummy, NewTextureId(w2, "TEXTURE_2D"), DitherMatrixTexture(w2))
        Step1(w1) == Step2(NewTextureId(w1, "TEXTURE_2D_ARRAY"), DummyCacheTexture(w1))
    IN Step1(BeginFrame([w EXCEPT !.device = DeviceNew]))

\* NewFrame that keeps a frame already staged
StageFrameUnlessStaged(w, frame) ==
    IF w.renderer.current_frame = <<>>
    THEN [w EXCEPT !.renderer.current_frame = <<frame>>] ELSE w

\* Renderer::update, NewFrame: self.current_frame = Some(frame)
StageFrame(w, frame) == [w EXCEPT !.renderer.current_frame = <<frame>>]

\* UpdateResources with cancel_rendering ignored
CancelRenderingIgnored(w, cancel_rendering) == w

\* Renderer::update, UpdateResources: if cancel_rendering { current_frame = None }
CancelRendering(w, cancel_rendering) ==
    IF w.ok /\ cancel_rendering THEN [w EXCEPT !.renderer.current_frame = <<>>] ELSE w

\* Renderer::update with a pending list replaced by that of the new frame
HandleResultMsgKeepingLastList(w, msg) ==
    CASE msg.type = "NewFrame" ->
           LET taken == msg.frame.frame # <<>> /\ msg.frame.frame[1].gpu_cache_updates # <<>>
           IN StageFrame(
                  [w EXCEPT !.renderer.pending_texture_updates = Append(@, msg.updates),
                            !.renderer.pending_gpu_cache_updates =
                                IF taken THEN msg.frame.frame[1].gpu_cache_updates ELSE @],
                  IF taken THEN [msg.frame EXCEPT !.frame[1].gpu_cache_updates = <<>>]
                  ELSE msg.frame)
      [] msg.type = "UpdateResources" ->
           CancelRendering(
               UpdateTextureCache(
                   [w EXCEPT !.renderer.pending_texture_updates = Append(@, msg.updates)]),
               msg.cancel_rendering)
      [] OTHER -> [w EXCEPT !.renderer.pending_shader_updates = @ + 1]

\* One iteration of the loop of Renderer::update: the match on the message
HandleResultMsg(w, msg) ==
    CASE msg.type = "NewFrame" ->
           LET taken == msg.frame.frame # <<>> /\ msg.frame.frame[1].gpu_cache_updates # <<>>
           IN StageFrame(
                  [w EXCEPT !.renderer.pending_texture_updates = Append(@, msg.updates),
                            !.renderer.pending_gpu_cache_updates =
                                IF taken THEN @ \o msg.frame.frame[1].gpu_cache_updates ELSE @],
                  IF taken THEN [msg.frame EXCEPT !.frame[1].gpu_cache_updates = <<>>]
                  ELSE msg.frame)
      [] msg.type = "UpdateResources" ->
           CancelRendering(
               UpdateTextureCache(
                   [w EXCEPT !.renderer.pending_texture_updates = Append(@, msg.updates)]),
               msg.cancel_rendering)
      [] OTHER -> [w EXCEPT !.renderer.pending_shader_updates = @ + 1]

\* Renderer::render
Render(w, framebuffer_size) ==
    IF w.renderer.current_frame = <<>> THEN w
    ELSE
    LET renderer_frame == w.renderer.current_frame[1]
        \* the frame is taken out of current_frame and put back at the end
        Taken(frame) == [w EXCEPT !.renderer.current_frame = <<>>, !.frame = frame]
        BindCache(w3) ==
            BindTexture(w3, TextureSampler.ResourceCache, w3.renderer.gpu_cache_texture.texture_id)
        PutBack(w5) ==
            IF ~w5.ok THEN w5
            ELSE [w5 EXCEPT !.renderer.current_frame =
                                <<[renderer_frame EXCEPT !.frame = <<w5.frame>>]>>,
                            !.frame = NoFrame]
    IN IF renderer_frame.frame = <<>> THEN w
       ELSE PutBack(EndFrame(DrawTileFrame(
                BindCache(UpdateGpuCache(
                    UpdateTextureCache(
                        SetBlend(GlCalls(BeginFrame(Taken(renderer_frame.frame[1])),
                                         <<G("disable", "SCISSOR_TEST", 0),
                                           G("disable", "DEPTH_TEST", 0)>>),
                                 FALSE, "")),
                    renderer_frame.frame[1])),
                framebuffer_size)))

\* Renderer::deinit
Deinit(w) ==
    LET \* the shaders' deinit: delete_program for every program compiled
        RECURSIVE DeletePrograms(_, _)
        DeletePrograms(x, i) ==
            IF i > w.gl.gen.programs \/ ~x.ok THEN x
            ELSE DeletePrograms(Gl(x, "delete_program", "", i), i + 1)
    IN EndFrame(DeletePrograms(
                    DeinitTexture(BeginFrame(w), w.renderer.dummy_cache_texture_id), 1))

(***************************************************************************)
(* The state machine.                                                      *)
(***************************************************************************)
\* The world the render thread's code runs on, and its result.
World ==
    [ok |-> TRUE, debug_assertions |-> debug_assertions, device |-> device, gl |-> gl,
     log |-> <<>>, renderer |-> renderer, handler |-> handler, frame |-> NoFrame]

Commit(w, next_pc, h) ==
    /\ device' = w.device
    /\ gl' = w.gl
    /\ renderer' = w.renderer
    /\ handler' = w.handler
    /\ log' = w.log
    /\ pc' = IF w.ok THEN next_pc ELSE "panicked"
    /\ hist' = h
    /\ UNCHANGED debug_assertions

\* The begin_frame / end_frame calls in a log
FrameCalls(l) == SelectSeq(l, LAMBDA c: c.op \in {"begin_frame", "end_frame"})

\* A fresh GL context
GlNew ==
    [active_texture |-> 0,
     tex |-> [u \in 0..(NumTextureUnits - 1) |-> [t \in TextureTargets |-> 0]],
     program |-> 0, vao |-> 0, pixel_unpack |-> 0, read_fbo |-> 0, draw_fbo |-> 0,
     caps |-> [c \in {"BLEND", "DEPTH_TEST", "SCISSOR_TEST", "STENCIL_TEST"} |-> FALSE],
     depth_mask |-> TRUE, blend_func |-> "", blend_color |-> 0, viewport |-> <<0, 0>>,
     images |-> <<>>, buffers |-> <<>>, fbos |-> <<>>,
     attached |-> {},
     gen |-> [textures |-> 0, framebuffers |-> 0, renderbuffers |-> 0, buffers |-> 0,
              programs |-> 0, vaos |-> 0, shaders |-> 0]]

HistNew ==
    [last_op |-> "", sent |-> 0, renders |-> 0, ops |-> 0, frames |-> <<>>,
     received |-> <<>>, frame_at_call |-> <<>>, cancelled |-> FALSE,
     frame_id_before |-> 0, dirty |-> {}, written |-> <<>>,
     handle |-> <<>>, differed |-> FALSE, repeated |-> FALSE,
     needed |-> [Color |-> 0, Alpha |-> 0], created |-> [Color |-> 0, Alpha |-> 0],
     pools |-> [Color |-> <<>>, Alpha |-> <<>>], size |-> <<0, 0>>,
     handed |-> [Color |-> <<>>, Alpha |-> <<>>], relayered |-> {},
     update |-> [width |-> 0, height |-> 0, stride |-> <<>>],
     lists |-> [arrived |-> <<>>, applied |-> <<>>],
     patch |-> [block_index |-> 0, block_count |-> 0, address |-> [u |-> 0, v |-> 0]],
     copies |-> [height |-> 0, covered |-> TRUE],
     init |-> [width |-> 0, height |-> 0, format |-> "Invalid", mode |-> ModeNone],
     made |-> {}, deleted |-> {}, redeleted |-> {},
     updates |-> <<>>, maps |-> <<>>, gens |-> <<>>,
     result |-> "", failed |-> FALSE, image |-> <<>>,
     data |-> [given |-> <<>>, after |-> <<>>, texels_per_item |-> 1],
     shader |-> [exists |-> FALSE, precache |-> FALSE, before |-> 0]]

\* The process before Renderer::new: a GL context, Device::new
Init ==
    /\ debug_assertions \in BOOLEAN
    /\ device = DeviceNew
    /\ gl = GlNew
    /\ renderer = [current_frame |-> <<>>]
    /\ handler = [present |-> FALSE, locks |-> [k \in 1..Len(ExternalKeys) |-> 0]]
    /\ result_rx = <<>>
    /\ pc = "start"
    /\ log = <<>>
    /\ hist = HistNew

(***************************************************************************)
(* What the backend sends.                                                 *)
(***************************************************************************)
Copy(block_index, block_count, u, v) ==
    [block_index |-> block_index, block_count |-> block_count, address |-> [u |-> u, v |-> v]]

TextureUpdate(id, op, mode, source) ==
    [id |-> id, op |-> op, width |-> 1, height |-> 1, format |-> "A8", filter |-> "Nearest",
     mode |-> mode, source |-> source, key |-> 3, data |-> [len |-> 1, value |-> 9],
     offset |-> 0, stride |-> <<>>]

\* The TextureUpdateLists of the messages
TextureUpdateLists ==
    [none |-> <<>>,
     create |-> <<TextureUpdate(0, "Create", ModeSimple, "Raw"),
                  TextureUpdate(0, "Update", ModeNone, "None")>>,
     free |-> <<TextureUpdate(0, "Free", ModeNone, "None")>>]

DeferredResolve(key, image_type, u, v) ==
    [key |-> key, image_type |-> image_type, address |-> [u |-> u, v |-> v]]

Batch(kind, blend_mode, colors) ==
    [kind |-> kind, blend_mode |-> blend_mode, blend_color |-> 0, needs_clipping |-> FALSE,
     colors |-> colors, instances |-> 1, tasks |-> <<>>]

ColorTarget(text_run_cache_prims, opaque_batches, alpha_batches) ==
    [vertical_blurs |-> 0, horizontal_blurs |-> 0, box_shadow_cache_prims |-> 0,
     text_run_cache_prims |-> text_run_cache_prims, line_cache_prims |-> 0,
     text_run_textures |-> NoTexture,
     opaque_batches |-> opaque_batches, alpha_batches |-> alpha_batches]

AlphaTarget(rectangles) ==
    [border_clears |-> 0, borders |-> 0, rectangles |-> rectangles, images |-> <<>>]

Pass(is_framebuffer, color_targets, alpha_targets) ==
    [is_framebuffer |-> is_framebuffer, color_targets |-> color_targets,
     alpha_targets |-> alpha_targets, color_texture_id |-> <<>>, alpha_texture_id |-> <<>>]

Frame(passes, deferred_resolves, height) ==
    [passes |-> passes, deferred_resolves |-> deferred_resolves,
     gpu_cache_updates |-> <<[id |-> 0, height |-> height, blocks |-> <<7>>,
                              updates |-> <<Copy(0, 1, 0, 0)>>]>>,
     window_size |-> <<2, 2>>, cache_size |-> <<1, 1>>,
     layer_texture_data |-> <<1>>, render_task_data |-> <<>>]

\* The frames of the NewFrame messages: without a tiling frame; with an empty
\* pass list; with an external image resolved twice; with two passes that
\* draw an external image.
Frames ==
    [none |-> <<>>,
     empty |-> <<Frame(<<>>, <<>>, 1)>>,
     twice |-> <<Frame(<<>>, <<DeferredResolve(1, "Texture2DHandle", 0, 1),
                              DeferredResolve(1, "Texture2DHandle", 1, 1)>>, 2)>>,
     passes |-> <<Frame(<<Pass(FALSE, <<ColorTarget(1, <<>>, <<>>)>>, <<AlphaTarget(1)>>),
                          Pass(TRUE,
                               <<ColorTarget(0,
                                     <<Batch("Rectangle", "None", NoTexture)>>,
                                     <<Batch("Image", "Alpha",
                                             <<SourceTexture("External", 2),
                                               SourceTexture("Invalid", 0),
                                               SourceTexture("Invalid", 0)>>)>>)>>,
                               <<>>)>>,
                        <<DeferredResolve(2, "TextureRectHandle", 0, 0)>>, 1)>>]

NewFrame(id, frame, updates) ==
    [type |-> "NewFrame", frame |-> [id |-> id, frame |-> Frames[frame]],
     updates |-> TextureUpdateLists[updates], cancel_rendering |-> FALSE]

UpdateResources(updates, cancel_rendering) ==
    [type |-> "UpdateResources", frame |-> [id |-> 0, frame |-> <<>>],
     updates |-> TextureUpdateLists[updates], cancel_rendering |-> cancel_rendering]

\* The ResultMsgs the backend may send as its id-th message
ResultMsgs(id) ==
    {NewFrame(id, "none", "none"), NewFrame(id, "empty", "create"),
     NewFrame(id, "twice", "none"), NewFrame(id, "passes", "none"),
     UpdateResources("none", TRUE), UpdateResources("create", FALSE),
     UpdateResources("free", TRUE),
     [type |-> "RefreshShader", frame |-> [id |-> 0, frame |-> <<>>],
      updates |-> <<>>, cancel_rendering |-> FALSE]}

(***************************************************************************)
(* The render thread and the backend.                                      *)
(***************************************************************************)
\* Renderer::new
New ==
    /\ pc = "start"
    /\ LET Return(w) ==
               Commit(w, "idle",
                      [hist EXCEPT !.last_op = "new", !.frames = @ \o FrameCalls(w.log)])
       IN Return(RendererNew(World))
    /\ UNCHANGED result_rx

\* Renderer::set_external_image_handler
SetExternalImageHandler ==
    /\ pc = "idle"
    /\ ~handler.present
    /\ Commit([World EXCEPT !.handler.present = TRUE], "idle",
              [hist EXCEPT !.last_op = "set_external_image_handler"])
    /\ UNCHANGED result_rx

\* The backend thread sends a message over the result channel.
BackendSend ==
    /\ pc \in {"idle", "update"}
    /\ hist.sent < MaxMsgs
    /\ \E msg \in ResultMsgs(hist.sent + 1):
          result_rx' = Append(result_rx, msg)
    /\ hist' = [hist EXCEPT !.sent = @ + 1]
    /\ UNCHANGED <<debug_assertions, device, gl, renderer, handler, pc, log>>

\* Renderer::update is called.
UpdateCall ==
    /\ pc = "idle"
    /\ Commit(World, "update",
              [hist EXCEPT !.last_op = "update_call", !.received = <<>>,
                           !.frame_at_call = renderer.current_frame])
    /\ UNCHANGED result_rx

\* Renderer::update: try_recv returns a message, the loop body handles it.
UpdateRecv ==
    /\ pc = "update"
    /\ result_rx # <<>>
    /\ LET msg == Head(result_rx)
           Handled(w) ==
               Commit(w, "update",
                      [hist EXCEPT !.last_op = "update_recv",
                                   \* the first MaxMsgs messages of the call
                                   !.received =
                                       IF Len(@) >= MaxMsgs THEN @
                                       ELSE Append(@, [type |-> msg.type, id |-> msg.frame.id,
                                                       cancel_rendering |-> msg.cancel_rendering]),
                                   !.cancelled = IF msg.type = "NewFrame" THEN FALSE
                                                 ELSE IF msg.cancel_rendering /\ w.ok THEN TRUE
                                                 ELSE @])
       IN Handled(HandleResultMsg(World, msg))
    /\ result_rx' = Tail(result_rx)

\* Renderer::update: try_recv finds the channel empty and update tries again.
UpdateSpinning ==
    /\ pc = "update"
    /\ result_rx = <<>>
    /\ Commit(World, "update", [hist EXCEPT !.last_op = "update"])
    /\ UNCHANGED result_rx

\* Renderer::update: try_recv finds the channel empty, update returns.
UpdateReturn ==
    /\ pc = "update"
    /\ result_rx = <<>>
    /\ Commit(World, "idle", [hist EXCEPT !.last_op = "update"])
    /\ UNCHANGED result_rx

\* Renderer::render
RenderCall ==
    /\ pc = "idle"
    /\ hist.renders < MaxRenders
    /\ LET Return(w) ==
               Commit(w, "idle",
                      [hist EXCEPT !.last_op = "render", !.renders = @ + 1,
                                   !.frames = @ \o FrameCalls(w.log),
                                   !.frame_id_before = device.frame_id])
       IN Return(Render(World, <<2, 2>>))
    /\ UNCHANGED result_rx

\* Renderer::deinit
DeinitCall ==
    /\ pc = "idle"
    /\ LET Return(w) ==
               Commit(w, "done",
                      [hist EXCEPT !.last_op = "deinit", !.frames = @ \o FrameCalls(w.log)])
       IN Return(Deinit(World))
    /\ UNCHANGED result_rx

Next ==
    \/ New
    \/ SetExternalImageHandler
    \/ BackendSend
    \/ UpdateCall
    \/ UpdateRecv
    \/ UpdateReturn
    \/ RenderCall
    \/ DeinitCall

Spec == Init /\ [][Next]_vars

\* The backend thread goes on sending while update() runs: after its first
\* MaxMsgs messages it sends UpdateResources messages without updates.  The
\* channel of std::sync::mpsc::channel() has no capacity; the model lets at
\* most MaxMsgs messages wait in it.
BackendStream ==
    /\ pc = "update"
    /\ hist.sent = MaxMsgs
    /\ Len(result_rx) < MaxMsgs
    /\ result_rx' = Append(result_rx, UpdateResources("none", FALSE))
    /\ UNCHANGED <<debug_assertions, device, gl, renderer, handler, pc, log, hist>>

\* Renderer::new and update() with a backend that never has to stop sending.  The render
\* thread is never descheduled for ever and try_recv does not wait, so each
\* step of update() that can be taken is taken: the loop body on a message
\* (the only step that removes the head of the channel) and the return.
SpecUpdate ==
    /\ Init
    /\ [][New \/ BackendSend \/ BackendStream \/ UpdateCall \/ UpdateRecv \/ UpdateReturn]_vars
    \* try_recv takes the first message of a channel that has one
    /\ WF_result_rx(pc = "update" /\ result_rx # <<>> /\ result_rx' = Tail(result_rx))
    /\ WF_vars(UpdateReturn)

(***************************************************************************)
(* Properties of the renderer.                                             *)
(***************************************************************************)
\* The number of calls `op` with argument `arg` in a log
CountCalls(l, op, arg) == Cardinality({i \in DOMAIN l: l[i].op = op /\ l[i].arg = arg})

Returned(op) == hist.last_op = op /\ pc \in {"idle", "done"}

\* C1: after every render() that returns, with or without a staged frame,
\* with or without passes, the external_images map is empty.
C1_ExternalImagesEmptyAfterRender ==
    Returned("render") => DOMAIN renderer.external_images = {}

\* A render() that locked an external image and unlocked it has returned.
C1_Witness ==
    /\ Returned("render")
    /\ \E i \in DOMAIN log: log[i].op = "unlock"

\* C2: when render() returns, every key has been unlocked exactly as many
\* times as it was locked during that render(), also for a frame whose
\* deferred_resolves name the same (id, channel) more than once.
C2_EveryLockUnlockedOnce ==
    Returned("render") =>
        \A key \in DOMAIN handler.locks:
            CountCalls(log, "lock", key) = CountCalls(log, "unlock", key)

\* C3: once update() has processed UpdateResources{cancel_rendering: true}
\* and no NewFrame after it, no frame is staged, and a render() that returns
\* has called nothing on the device and left the frame id as it was.
C3_CancelledRenderIsNoOp ==
    (hist.cancelled /\ pc # "panicked") =>
        /\ renderer.current_frame = <<>>
        /\ hist.last_op = "render" =>
              /\ log = <<>>
              /\ device.frame_id = hist.frame_id_before
              /\ ~device.inside_frame

\* render() has returned after a cancel dropped a staged frame.
C3_Witness ==
    /\ hist.cancelled
    /\ Returned("render")
    /\ \E i \in DOMAIN hist.received: hist.received[i].type = "NewFrame"

Max(S) == CHOOSE x \in S: \A y \in S: y <= x

\* C4: when update() returns, having received the messages r in this order:
\* the NewFrames were received in the order they were sent; the staged frame
\* is the frame of the last NewFrame if that came after the last cancelling
\* UpdateResources; none if a cancel came with no later NewFrame; the frame
\* staged at the call if neither came.
C4_StagedFrameIsLastNewFrameAfterCancel ==
    Returned("update") =>
        LET r == hist.received
            news == {i \in DOMAIN r: r[i].type = "NewFrame"}
            cancels == {i \in DOMAIN r: r[i].type = "UpdateResources" /\ r[i].cancel_rendering}
            last_new == Max(news \cup {0})
            last_cancel == Max(cancels \cup {0})
        IN /\ \A i, j \in news: i < j => r[i].id < r[j].id
           /\ IF last_new > last_cancel
              THEN /\ renderer.current_frame # <<>>
                   /\ renderer.current_frame[1].id = r[last_new].id
              ELSE IF last_cancel > 0
              THEN renderer.current_frame = <<>>
              ELSE renderer.current_frame = hist.frame_at_call

\* update() has returned after receiving a cancelling UpdateResources and
\* then a NewFrame, whose frame is staged.
C4_Witness ==
    /\ Returned("update")
    /\ Len(hist.received) = 2
    /\ hist.received[1].type = "UpdateResources"
    /\ hist.received[1].cancel_rendering
    /\ hist.received[2].type = "NewFrame"
    /\ renderer.current_frame # <<>>

\* C5: update() only queues texture-update lists: handling a message calls
\* nothing on the device; and every texture-cache update op reaches the
\* device while the device is inside a frame.
C5_TextureUpdatesOnlyInsideFrame ==
    /\ hist.last_op = "update_recv" => log = <<>>
    /\ \A i \in DOMAIN log: log[i].op = "texture_update" => log[i].arg = 1

\* C9: over Renderer::new, every render() and deinit(), begin_frame and
\* end_frame alternate, begin_frame first, and each begin_frame returns the
\* id of the one before plus one.
C9_FramesAlternate ==
    LET f == hist.frames
    IN \A i \in DOMAIN f:
          /\ f[i].op = IF i % 2 = 1 THEN "begin_frame" ELSE "end_frame"
          /\ (i % 2 = 1 /\ i > 2) => f[i].arg = f[i - 2].arg + 1

\* new, a render() of a frame and deinit() have run.
C9_Witness ==
    /\ Returned("deinit")
    /\ Len(hist.frames) = 6

(***************************************************************************)
(* The device driven on its own: any sequence of begin_frame, end_frame    *)
(* and the cached binds, on the device Renderer::new leaves behind.        *)
(***************************************************************************)
\* The renderer right after Renderer::new
Constructed(d) ==
    RendererNew([ok |-> TRUE, debug_assertions |-> d, device |-> DeviceNew, gl |-> GlNew,
                 log |-> <<>>, renderer |-> [current_frame |-> <<>>],
                 handler |-> [present |-> FALSE, locks |-> [k \in 1..Len(ExternalKeys) |-> 0]],
                 frame |-> NoFrame])

InitDevice ==
    /\ debug_assertions \in BOOLEAN
    /\ LET Of(w) ==
               /\ device = w.device
               /\ gl = w.gl
               /\ renderer = w.renderer
               /\ handler = w.handler
       IN Of(Constructed(debug_assertions))
    /\ result_rx = <<>>
    /\ pc = "device"
    /\ log = <<>>
    /\ hist = HistNew

\* One device call: `handle` is the handle it was given, `differed` whether
\* that handle differed from the cached one when the call was made.
DeviceCall(w, op, handle, differed) ==
    /\ pc = "device"
    /\ hist.ops < MaxOps
    /\ Commit(w, "device",
              [hist EXCEPT !.last_op = op, !.ops = @ + 1,
                           !.repeated = (hist.last_op = op /\ hist.handle = handle),
                           !.handle = handle, !.differed = differed])
    /\ UNCHANGED result_rx

DevBeginFrame == DeviceCall(BeginFrame(World), "begin_frame", <<>>, FALSE)

DevEndFrame == DeviceCall(EndFrame(World), "end_frame", <<>>, FALSE)

\* The textures the binds are given: a TEXTURE_2D, a TEXTURE_2D_ARRAY and an
\* external TEXTURE_RECTANGLE texture
DevBindTexture ==
    \E sampler \in {TextureSampler.Color0, TextureSampler.ResourceCache}:
    \E texture_id \in {renderer.dither_matrix_texture_id[1], renderer.dummy_cache_texture_id,
                       TextureId(NativeTextureOf(1), "TEXTURE_RECTANGLE")}:
       DeviceCall(BindTexture(World, sampler, texture_id), "bind_texture",
                  <<sampler, texture_id.name, texture_id.target>>,
                  device.bound_textures[sampler] # texture_id)

DevBindProgram ==
    \E program_id \in 1..2:
       DeviceCall(BindProgram(World, program_id), "bind_program", <<program_id>>,
                  device.bound_program # program_id)

DevBindVao ==
    \E vao_id \in {renderer.prim_vao_id, renderer.blur_vao_id}:
       DeviceCall(BindVao(World, vao_id), "bind_vao", <<vao_id>>, device.bound_vao # vao_id)

DevBindPbo ==
    \E pbo_id \in {0, renderer.gpu_cache_texture.pbo_id}:
       DeviceCall(BindPbo(World, pbo_id), "bind_pbo", <<pbo_id>>, device.bound_pbo # pbo_id)

\* The render targets the binds are given: None or layer 0 of the dummy cache texture
DevBindReadTarget ==
    \E texture_id \in {<<>>, <<renderer.dummy_cache_texture_id, 0>>}:
       DeviceCall(BindReadTarget(World, texture_id), "bind_read_target",
                  <<TargetFbo(World, texture_id, device.default_read_fbo)>>,
                  device.bound_read_fbo # TargetFbo(World, texture_id, device.default_read_fbo))

DevBindDrawTarget ==
    \E texture_id \in {<<>>, <<renderer.dummy_cache_texture_id, 0>>}:
       DeviceCall(BindDrawTarget(World, texture_id, IF texture_id = <<>> THEN <<>> ELSE <<1, 1>>),
                  "bind_draw_target",
                  <<TargetFbo(World, texture_id, device.default_draw_fbo)>>,
                  device.bound_draw_fbo # TargetFbo(World, texture_id, device.default_draw_fbo))

NextDevice ==
    \/ DevBeginFrame
    \/ DevEndFrame
    \/ DevBindTexture
    \/ DevBindProgram
    \/ DevBindVao
    \/ DevBindPbo
    \/ DevBindReadTarget
    \/ DevBindDrawTarget

SpecDevice == InitDevice /\ [][NextDevice]_vars

(***************************************************************************)
(* Properties of the device.                                               *)
(***************************************************************************)
BindOps ==
    {"bind_texture", "bind_program", "bind_vao", "bind_pbo", "bind_read_target",
     "bind_draw_target"}

\* The GL bind calls in a log
GlBinds(l) ==
    Cardinality({i \in DOMAIN l:
                    l[i].op \in {"bind_texture", "use_program", "bind_vertex_array",
                                 "bind_buffer", "bind_framebuffer"}})

\* C8: a cached bind made inside a frame issues exactly one GL bind when its
\* handle differs from the cached handle and none when it is the cached handle;
\* so of two consecutive calls with the same handle the first issues one bind
\* exactly when the handle differed and the second issues none.
C8_RedundantBindsAreElided ==
    (pc = "device" /\ hist.last_op \in BindOps /\ device.inside_frame) =>
        /\ GlBinds(log) = (IF hist.differed THEN 1 ELSE 0)
        /\ hist.repeated => GlBinds(log) = 0

\* C8 witness: inside a frame, bind_program is called twice in a row with the
\* same program.
C8_Witness ==
    /\ pc = "device" /\ device.inside_frame
    /\ hist.last_op = "bind_program" /\ hist.repeated
    /\ device.bound_program = hist.handle[1]

\* C10 as stated: when end_frame returns, every texture unit, the program, the
\* vertex array and the pixel-unpack buffer are unbound and the read and draw
\* framebuffers are the default ones.
C10_NothingBoundAfterEndFrame ==
    (pc = "device" /\ hist.last_op = "end_frame") =>
        /\ \A unit \in DOMAIN gl.tex: \A target \in TextureTargets: gl.tex[unit][target] = 0
        /\ gl.program = 0
        /\ gl.vao = 0
        /\ gl.pixel_unpack = 0
        /\ gl.read_fbo = device.default_read_fbo
        /\ gl.draw_fbo = device.default_draw_fbo

\* C10 amended: when end_frame returns, the program is unbound, the TEXTURE_2D
\* binding of each of the 16 texture units is unbound, unit 0 is the active
\* unit, and the read and draw framebuffers are the default ones.
C10_ProgramTextures2dAndTargetsUnbound ==
    (pc = "device" /\ hist.last_op = "end_frame") =>
        /\ \A unit \in DOMAIN gl.tex: gl.tex[unit]["TEXTURE_2D"] = 0
        /\ gl.program = 0
        /\ gl.active_texture = 0
        /\ gl.read_fbo = device.default_read_fbo
        /\ gl.draw_fbo = device.default_draw_fbo

\* C10 witness: end_frame returns from a frame in which a TEXTURE_2D texture
\* was bound.
C10_Witness ==
    /\ pc = "device" /\ hist.last_op = "end_frame"
    /\ \E sampler \in DOMAIN device.bound_textures:
          /\ device.bound_textures[sampler].target = "TEXTURE_2D"
          /\ device.bound_textures[sampler].name # 0


(***************************************************************************)
(* The GPU cache texture driven on its own, inside a frame: any sequence   *)
(* of CacheTexture::update, apply_patch and flush.                         *)
(***************************************************************************)
InitCache ==
    /\ debug_assertions \in BOOLEAN
    /\ LET Of(w) ==
               /\ device = w.device
               /\ gl = w.gl
               /\ renderer = w.renderer
               /\ handler = w.handler
       IN Of(BeginFrame(Constructed(debug_assertions)))
    /\ result_rx = <<>>
    /\ pc = "cache"
    /\ log = <<>>
    /\ hist = HistNew

\* The linear shadow indices a Copy covers
Covered(update) ==
    LET block_offset == update.address.v * MAX_VERTEX_TEXTURE_WIDTH + update.address.u
    IN block_offset..(block_offset + update.block_count - 1)

\* The value last written to each shadow index, after `updates` are applied in order
RECURSIVE LastWritten(_, _, _)
LastWritten(written, updates, blocks) ==
    IF updates = <<>> THEN written
    ELSE LET update == Head(updates)
             block_offset == update.address.v * MAX_VERTEX_TEXTURE_WIDTH + update.address.u
         IN LastWritten([i \in DOMAIN written \cup Covered(update) |->
                            IF i \in Covered(update)
                            THEN blocks[update.block_index + (i - block_offset) + 1]
                            ELSE written[i]],
                        Tail(updates), blocks)

\* The blocks of the n-th operation: values no other operation writes
BlocksOf(n) == [i \in 1..MAX_VERTEX_TEXTURE_WIDTH |-> 10 * n + i]

\* The GpuCacheUpdateLists given to update: one Copy in row 0; a whole row 1;
\* no Copy; a Copy in a row the list's height does not cover; two Copies, the
\* second over the first; a Copy that runs over the end of its row.
GpuCacheUpdateLists(n) ==
    {[height |-> l[1], blocks |-> BlocksOf(n), updates |-> l[2]] :
        l \in {<<1, <<Copy(0, 1, 0, 0)>>>>,
               <<2, <<Copy(0, MAX_VERTEX_TEXTURE_WIDTH, 0, 1)>>>>,
               <<2, <<>>>>,
               <<0, <<Copy(0, 1, 0, 0)>>>>,
               <<1, <<Copy(0, 1, 0, 0), Copy(1, 1, 0, 0)>>>>,
               <<2, <<Copy(0, 2, MAX_VERTEX_TEXTURE_WIDTH - 1, 0)>>>>}}

CacheCall(w, h) ==
    /\ pc = "cache"
    /\ hist.ops < MaxOps
    /\ Commit(w, "cache", [h EXCEPT !.ops = @ + 1])
    /\ UNCHANGED result_rx

CacheUpdateOp ==
    \E updates \in GpuCacheUpdateLists(hist.ops + 1):
       CacheCall(CacheUpdate(World, updates),
                 [hist EXCEPT !.last_op = "update",
                              !.written = LastWritten(@, updates.updates, updates.blocks),
                              \* the largest height of a list so far, and whether
                              \* every Copy so far was in a row below it
                              !.copies =
                                  [height |-> Max({@.height, updates.height}),
                                   covered |->
                                       /\ @.covered
                                       /\ \A i \in DOMAIN updates.updates:
                                             updates.updates[i].address.v
                                                 < Max({@.height, updates.height})],
                              \* the texture height and the shadow rows before
                              !.size = <<device.textures[renderer.gpu_cache_texture.texture_id].height,
                                         Len(renderer.gpu_cache_texture.rows)>>])

\* The Copies given to apply_patch: one block as update_deferred_resolves
\* does, at the start of row 0 and at the end of row 1; two blocks from the
\* last position of row 0.
ApplyPatchOp ==
    \E update \in {Copy(0, 1, 0, 0), Copy(0, 1, MAX_VERTEX_TEXTURE_WIDTH - 1, 1),
                   Copy(0, 2, MAX_VERTEX_TEXTURE_WIDTH - 1, 0)}:
       CacheCall(ApplyPatch(World, update, BlocksOf(hist.ops + 1)),
                 [hist EXCEPT !.last_op = "apply_patch", !.patch = update,
                              !.copies.covered = @ /\ update.address.v < hist.copies.height,
                              !.written = LastWritten(@, <<update>>, BlocksOf(hist.ops + 1))])

FlushOp ==
    CacheCall(Flush(World),
              [hist EXCEPT !.last_op = "flush",
                           !.dirty = {row \in 0..(Len(renderer.gpu_cache_texture.rows) - 1):
                                         renderer.gpu_cache_texture.rows[row + 1]}])

NextCache ==
    \/ CacheUpdateOp
    \/ ApplyPatchOp
    \/ FlushOp

SpecCache == InitCache /\ [][NextCache]_vars

(***************************************************************************)
(* Properties of the GPU cache texture.                                    *)
(***************************************************************************)
\* The height of the GPU texture
CacheTextureHeight == GetTextureDimensions(World, renderer.gpu_cache_texture.texture_id)[2]

\* The shadow block at every index written equals the last value written there
ShadowIsLastWritten ==
    \A i \in DOMAIN hist.written:
       /\ i + 1 \in DOMAIN renderer.gpu_cache_texture.cpu_blocks
       /\ renderer.gpu_cache_texture.cpu_blocks[i + 1] = hist.written[i]

\* Row `row` of the GPU texture holds what row `row` of the shadow holds
GpuRowIsShadowRow(row) ==
    LET name == renderer.gpu_cache_texture.texture_id.name
    IN /\ name \in DOMAIN gl.images
       /\ gl.images[name].width = MAX_VERTEX_TEXTURE_WIDTH
       /\ row < gl.images[name].height
       /\ \A u \in 0..(MAX_VERTEX_TEXTURE_WIDTH - 1):
             gl.images[name].texels[row * MAX_VERTEX_TEXTURE_WIDTH + u] =
                 renderer.gpu_cache_texture.cpu_blocks[row * MAX_VERTEX_TEXTURE_WIDTH + u + 1]

\* C6 as stated: after any sequence of update / apply_patch Copies followed by
\* flush, every shadow block equals the value the last Copy covering it wrote,
\* and every row that was dirty when flush began is the same in the GPU
\* texture and in the shadow.
C6_ShadowAndGpuCoherent ==
    (pc = "cache" /\ hist.last_op = "flush") =>
        /\ ShadowIsLastWritten
        /\ \A row \in hist.dirty: GpuRowIsShadowRow(row)

\* C6 amended: after any sequence of update / apply_patch Copies followed by
\* flush, every shadow block equals the value the last Copy covering it wrote,
\* and every row that was dirty when flush began and lies below the height of
\* the GPU texture is the same in the GPU texture and in the shadow.
C6_ShadowAndAllocatedGpuRowsCoherent ==
    (pc = "cache" /\ hist.last_op = "flush") =>
        /\ ShadowIsLastWritten
        /\ \A row \in hist.dirty: row < CacheTextureHeight => GpuRowIsShadowRow(row)

\* C6 witness: flush returns after Copies wrote the shadow, with a row that
\* was dirty and lies below the height of the GPU texture.
C6_Witness ==
    /\ pc = "cache" /\ hist.last_op = "flush"
    /\ DOMAIN hist.written # {}
    /\ \E row \in hist.dirty: row < CacheTextureHeight

\* The rows flush uploaded: the row of each upload from the pixel buffer
Uploads(row) == CountCalls(log, "tex_sub_image_2d_pbo", row)

\* C7: flush uploads a row if and only if the row's dirty bit was set when
\* flush began, uploads each such row exactly once, and returns with every
\* dirty bit cleared and no pixel buffer bound.
C7_FlushUploadsDirtyRowsOnce ==
    (pc = "cache" /\ hist.last_op = "flush") =>
        /\ \A row \in 0..(Len(renderer.gpu_cache_texture.rows) - 1):
              Uploads(row) = (IF row \in hist.dirty THEN 1 ELSE 0)
        /\ Cardinality({i \in DOMAIN log: log[i].op = "tex_sub_image_2d_pbo"}) =
              Cardinality(hist.dirty)
        /\ \A i \in DOMAIN renderer.gpu_cache_texture.rows: ~renderer.gpu_cache_texture.rows[i]
        /\ device.bound_pbo = 0
        /\ gl.pixel_unpack = 0

\* C7 witness: flush returns when one row was dirty and another was clean.
C7_Witness ==
    /\ pc = "cache" /\ hist.last_op = "flush"
    /\ hist.dirty # {}
    /\ Cardinality(hist.dirty) < Len(renderer.gpu_cache_texture.rows)

(***************************************************************************)
(* The frame executor driven on its own: any sequence of update() calls    *)
(* that receive one NewFrame and of render() calls, on the renderer        *)
(* Renderer::new leaves behind.                                            *)
(***************************************************************************)
InitFrame ==
    /\ debug_assertions \in BOOLEAN
    /\ LET Of(w) ==
               /\ device = w.device
               /\ gl = w.gl
               /\ renderer = w.renderer
               /\ handler = w.handler
       IN Of(Constructed(debug_assertions))
    /\ result_rx = <<>>
    /\ pc = "frame"
    /\ log = <<>>
    /\ hist = HistNew

\* The frames the backend builds: offscreen passes, then the framebuffer pass
\* with one colour target; a frame whose only pass draws an alpha target; and
\* a frame without passes.
\* The offscreen passes: none; one with a colour and an alpha target; two, the
\* second with an alpha target; three; two, the second with a Composite batch.
\* The colour target of the framebuffer pass: nothing to draw; a text run
\* cache primitive alone; one with an opaque batch; two opaque and two alpha
\* batches of different sizes and blend modes; a Composite batch; alpha
\* batches of every blend mode, two of them subpixel of different colours.
DrawnFrames ==
    LET Instances(batch, instances) == [batch EXCEPT !.instances = instances]
        Composite(backdrop, readback, source) ==
            [Batch("Composite", "PremultipliedAlpha", NoTexture) EXCEPT
                !.tasks = [backdrop |-> backdrop, readback |-> readback, source |-> source]]
        Subpixel(color, instances) ==
            [Batch("TextRun", "Subpixel", NoTexture) EXCEPT
                !.blend_color = color, !.instances = instances]
        color == ColorTarget(0, <<Batch("Rectangle", "None", NoTexture)>>, <<>>)
        only == Pass(FALSE, <<color>>, <<>>)
        both == Pass(FALSE, <<color>>, <<AlphaTarget(1)>>)
        composite ==
            Pass(FALSE,
                 <<ColorTarget(0, <<>>,
                       <<Composite(<<4, 1, 0, 0, 3, 2>>, <<0, 1, 1, 1, 0, 0>>,
                                   <<0, 0, 0, 0, 1, 5>>)>>)>>,
                 <<>>)
        OffscreenPasses ==
            <<<<>>, <<both>>, <<only, both>>, <<both, both, only>>, <<both, composite>>>>
        FramebufferTargets ==
            <<ColorTarget(0, <<>>, <<>>),
              ColorTarget(1, <<>>, <<>>),
              ColorTarget(1, <<Batch("Rectangle", "None", NoTexture)>>, <<>>),
              ColorTarget(0,
                  <<Batch("Rectangle", "None", NoTexture),
                    Instances(Batch("Image", "None", NoTexture), 2)>>,
                  <<Instances(Batch("TextRun", "Alpha", NoTexture), 3),
                    Instances(Batch("Image", "PremultipliedAlpha", NoTexture), 4)>>),
              ColorTarget(0, <<>>,
                  <<Composite(<<5, 3, 0, 0, 1, 2>>, <<1, 0, 2, 3, 0, 0>>,
                              <<0, 0, 0, 0, 3, 2>>)>>),
              ColorTarget(0, <<>>,
                  <<Instances(Batch("Image", "None", NoTexture), 5),
                    Subpixel(1, 1), Subpixel(2, 2),
                    Instances(Batch("Image", "PremultipliedAlpha", NoTexture), 3),
                    Instances(Batch("Rectangle", "Alpha", NoTexture), 4),
                    Instances(Batch("Image", "None", NoTexture), 6)>>)>>
    IN {Frame(OffscreenPasses[c[1]] \o <<Pass(TRUE, <<FramebufferTargets[c[2]]>>, <<>>)>>,
              <<>>, 1) :
           c \in {<<1, 1>>, <<1, 2>>, <<2, 4>>, <<3, 3>>, <<4, 6>>, <<5, 5>>}}
       \cup {Frame(<<Pass(FALSE, <<>>, <<AlphaTarget(1)>>)>>, <<>>, 1), Frame(<<>>, <<>>, 1)}

\* The handles start_frame gave to the passes of `frame` that need a target
\* of `kind`, in pass order, read from the GL calls `l` of the render: the
\* textures are initialised pass by pass, colour before alpha, and each
\* init_texture binds its texture and sets its parameters.
HandedOut(l, frame, kind) ==
    LET inits == {i \in DOMAIN l: l[i].op = "tex_parameter_i"
                                  /\ l[i].target = "TEXTURE_2D_ARRAY"}
        Bound(i) == l[Max({j \in 1..i: l[j].op = "bind_texture"
                                       /\ l[j].target = "TEXTURE_2D_ARRAY"})].arg
        Needs(p, k) == NeedsRenderTargetKind(frame.passes[p], k)
        \* the passes that need a target of the kind
        passes == {p \in DOMAIN frame.passes: Needs(p, kind)}
        \* the number of textures initialised up to that of pass p
        Slot(p) == Cardinality({q \in DOMAIN frame.passes: q <= p /\ Needs(q, "Color")})
                   + Cardinality({q \in DOMAIN frame.passes:
                                     Needs(q, "Alpha") /\ (q < p \/ (q = p /\ kind = "Alpha"))})
        InitCall(n) == CHOOSE i \in inits: Cardinality({e \in inits: e <= i}) = n
        Nth(j) == CHOOSE p \in passes: Cardinality({q \in passes: q <= p}) = j
    IN [j \in 1..Cardinality(passes) |-> Bound(InitCall(Slot(Nth(j))))]

\* Renderer::update: the channel holds one NewFrame message; its
\* GpuCacheUpdateList is the one the backend built for this frame.
FrameUpdate ==
    /\ pc = "frame"
    /\ hist.ops < MaxFrames
    /\ \E frame \in DrawnFrames:
          Commit(HandleResultMsg(World,
                     [type |-> "NewFrame",
                      frame |-> [id |-> hist.ops + 1,
                                 frame |-> <<[frame EXCEPT !.gpu_cache_updates[1].id =
                                                               hist.ops + 1]>>],
                      updates |-> <<>>, cancel_rendering |-> FALSE]),
                 "frame", [hist EXCEPT !.last_op = "update", !.ops = @ + 1,
                                       !.lists.arrived = Append(@, hist.ops + 1)])
    /\ UNCHANGED result_rx

\* Renderer::update: the channel holds one UpdateResources message that
\* cancels the rendering of the frame the update before has staged.
FrameCancel ==
    /\ pc = "frame"
    /\ hist.ops < MaxFrames
    /\ hist.last_op = "update"
    /\ Commit(HandleResultMsg(World, UpdateResources("none", TRUE)),
              "frame", [hist EXCEPT !.last_op = "cancel", !.ops = @ + 1])
    /\ UNCHANGED result_rx

\* Renderer::render of the frame staged
FrameRender ==
    /\ pc = "frame"
    /\ renderer.current_frame # <<>>
    /\ hist.renders < MaxFrames
    \* the framebuffer has the size of the window of the frames, or is larger
    /\ \E framebuffer_size \in {<<2, 2>>, <<4, 8>>}:
          LET frame == renderer.current_frame[1].frame[1]
              \* the number of passes that require a render target of a kind
              PassesRequiring(kind) ==
                  Cardinality({i \in DOMAIN frame.passes:
                                  NeedsRenderTargetKind(frame.passes[i], kind)})
              \* the handles of `after` that are not in `before`
              NewHandles(before, after) ==
                  Cardinality({after[i] : i \in DOMAIN after}
                                  \ {before[i] : i \in DOMAIN before})
              \* the update lists the render applied, in order
              IsList(call) == call.op = "update_list"
              ListsApplied(l) ==
                  [i \in 1..Len(SelectSeq(l, IsList)) |-> SelectSeq(l, IsList)[i].arg]
              Return(w) ==
                  Commit(w, "frame",
                         [hist EXCEPT
                             !.last_op = "render", !.renders = @ + 1,
                             !.frame_id_before = device.frame_id,
                             !.size = framebuffer_size,
                             !.lists.applied = @ \o ListsApplied(w.log),
                             !.pools = [Color |-> renderer.color_render_targets,
                                        Alpha |-> renderer.alpha_render_targets],
                             !.handed =
                                 [k \in {"Color", "Alpha"} |->
                                     Append(@[k], IF w.ok THEN HandedOut(w.log, frame, k)
                                                  ELSE <<>>)],
                             !.needed = [k \in {"Color", "Alpha"} |->
                                            Max({@[k], PassesRequiring(k)})],
                             !.created =
                                 [Color |-> @.Color
                                               + NewHandles(renderer.color_render_targets,
                                                            w.renderer.color_render_targets),
                                  Alpha |-> @.Alpha
                                               + NewHandles(renderer.alpha_render_targets,
                                                            w.renderer.alpha_render_targets)]])
          IN Return(Render(World, framebuffer_size))
    /\ UNCHANGED result_rx

NextFrame ==
    \/ FrameUpdate
    \/ FrameCancel
    \/ FrameRender

SpecFrame == InitFrame /\ [][NextFrame]_vars

(***************************************************************************)
(* Properties of the frame executor.                                       *)
(***************************************************************************)
\* The frame render() drew last: render() puts it back in current_frame
RenderedFrame == renderer.current_frame[1].frame[1]

\* The last target render() drew
LastTarget ==
    LET pass == RenderedFrame.passes[Len(RenderedFrame.passes)]
    IN IF pass.color_targets # <<>>
       THEN [kind |-> "Color", target |-> pass.color_targets[Len(pass.color_targets)]]
       ELSE [kind |-> "Alpha", target |-> pass.alpha_targets[Len(pass.alpha_targets)]]

DrawCalls == {i \in DOMAIN log: log[i].op = "draw_indexed_triangles_instanced"}

\* The position of the draw call that has `after` draw calls after it
DrawCallBeforeLast(after) ==
    CHOOSE d \in DrawCalls: Cardinality({e \in DrawCalls: e > d}) = after

\* Whether the depth mask was last set to `flag` before position i of the log
DepthWriteAt(i, flag) ==
    LET set == {j \in 1..(i - 1): log[j].op = "depth_mask"}
    IN set # {} /\ log[Max(set)].arg = flag

\* Whether depth test was last enabled before position i of the log
DepthTestAt(i) ==
    LET set == {j \in 1..(i - 1): log[j].op \in {"enable", "disable"}
                                  /\ log[j].target = "DEPTH_TEST"}
    IN set # {} /\ log[Max(set)].op = "enable"

\* C12: in draw_color_target every opaque batch is submitted while depth
\* write is enabled and before any alpha batch, every alpha batch is submitted
\* while depth write is disabled and depth test is still enabled, opaque
\* batches are submitted in reverse list order and alpha batches in list
\* order.  Stated on the draw calls of the last colour target render() drew:
\* the batches are told apart by their instance counts.
C12_OpaqueReversedThenAlphaInOrder ==
    (pc = "frame" /\ hist.last_op = "render" /\ RenderedFrame.passes # <<>>
        /\ LastTarget.kind = "Color")
        => LET opaque == LastTarget.target.opaque_batches
               alpha == LastTarget.target.alpha_batches
               n == Len(opaque)
               m == Len(alpha)
           IN /\ Cardinality(DrawCalls) >= n + m
              /\ \A k \in 1..n:
                    LET d == DrawCallBeforeLast(n + m - k)
                    IN /\ log[d].arg = opaque[n + 1 - k].instances
                       /\ DepthWriteAt(d, 1)
              /\ \A k \in 1..m:
                    LET d == DrawCallBeforeLast(m - k)
                    IN /\ log[d].arg = alpha[k].instances
                       /\ DepthWriteAt(d, 0)
                       /\ DepthTestAt(d)

\* A colour target with two opaque and two alpha batches, all of different
\* sizes, was drawn
C12_Witness ==
    /\ pc = "frame"
    /\ hist.last_op = "render"
    /\ RenderedFrame.passes # <<>>
    /\ LastTarget.kind = "Color"
    /\ Len(LastTarget.target.opaque_batches) = 2
    /\ Len(LastTarget.target.alpha_batches) = 2
    /\ Cardinality({log[d].arg : d \in DrawCalls}) >= 4

\* The blit_framebuffer calls in the log of the last operation: their arguments
Blits == {log[i].arg : i \in {j \in DOMAIN log: log[j].op = "blit_framebuffer"}}

\* C13: for a Composite batch the blit source rectangle is (backdrop.data[0]
\* - backdrop.data[4] + source.data[4], backdrop.data[1] - backdrop.data[5]
\* + source.data[5], w, h) and the destination is (readback.data[0],
\* readback.data[1], w, h), with (w, h) = readback.data[2..3]; drawing to the
\* default framebuffer the source y becomes target_height - h - y and the
\* destination (x, y + h, w, -h); for an intermediate target both are used
\* as they are.  blit_framebuffer is given the corners of the rectangles.
C13_CompositeBlitRects ==
    (pc = "frame" /\ hist.last_op = "render")
        => \A pass \in {RenderedFrame.passes[i] : i \in DOMAIN RenderedFrame.passes}:
           \A j \in DOMAIN pass.color_targets:
           \A k \in DOMAIN pass.color_targets[j].alpha_batches:
              LET batch == pass.color_targets[j].alpha_batches[k]
                  backdrop == batch.tasks.backdrop
                  readback == batch.tasks.readback
                  source == batch.tasks.source
                  x == backdrop[1] - backdrop[5] + source[5]
                  y == backdrop[2] - backdrop[6] + source[6]
                  width == readback[3]
                  height == readback[4]
              IN batch.kind = "Composite"
                 => IF pass.is_framebuffer
                    THEN <<x, hist.size[2] - height - y,
                           x + width, hist.size[2] - height - y + height,
                           readback[1], readback[2] + height,
                           readback[1] + width, readback[2]>> \in Blits
                    ELSE <<x, y, x + width, y + height,
                           readback[1], readback[2],
                           readback[1] + width, readback[2] + height>> \in Blits

\* A frame with a Composite batch in an intermediate target and one in the
\* framebuffer was drawn to the larger framebuffer: two blits
C13_Witness ==
    /\ pc = "frame"
    /\ hist.last_op = "render"
    /\ hist.size = <<4, 8>>
    /\ Len(RenderedFrame.passes) = 3
    /\ Cardinality(Blits) = 2
    /\ <<7, 2, 9, 5, 1, 3, 3, 0>> \in Blits
    /\ <<2, 4, 3, 5, 0, 1, 1, 2>> \in Blits

\* The render target textures start_frame has created: the array textures of
\* the device but the dummy cache texture
RenderTargetTextures ==
    {t \in DOMAIN device.textures: t.target = "TEXTURE_2D_ARRAY"}
        \ {renderer.dummy_cache_texture_id}

\* C14: over any sequence of rendered frames, the number of render target
\* texture handles start_frame has created for a target kind never exceeds
\* the largest number of passes requiring that kind in any single frame
\* rendered so far.  The handles created are those that appeared in the free
\* lists, and they are all the array textures the device has created.
C14_HandlesCreatedAtMostPassesNeeded ==
    pc = "frame"
        => /\ hist.created.Color <= hist.needed.Color
           /\ hist.created.Alpha <= hist.needed.Alpha
           /\ Cardinality(RenderTargetTextures) = hist.created.Color + hist.created.Alpha

\* Three frames were drawn, one of them with three passes that need a colour
\* target, the last one with fewer: three handles were created and then reused
C14_Witness ==
    /\ pc = "frame"
    /\ hist.last_op = "render"
    /\ hist.renders = 3
    /\ hist.needed.Color = 3
    /\ hist.created.Color = 3
    /\ hist.created.Alpha = 2
    /\ Len(RenderedFrame.passes) = 2
    /\ Len(renderer.color_render_targets) = 3

\* The position of handle h in the sequence `handles`, 0 if it is not in it
Position(handles, h) ==
    IF \E i \in DOMAIN handles: handles[i] = h
    THEN CHOOSE i \in DOMAIN handles: handles[i] = h ELSE 0

\* Whether the last frame handed h out before g: h to a pass, and g to a
\* later pass or to none
HandedOutBefore(kind, h, g) ==
    LET last == hist.handed[kind][Len(hist.handed[kind])]
    IN /\ Position(last, h) > 0
       /\ Position(last, g) = 0 \/ Position(last, h) < Position(last, g)

\* When h was last returned to the free list before the last frame: the
\* frame, then the pass (handles go back pass by pass)
ReturnedAt(kind, h) ==
    LET handed == hist.handed[kind]
    IN Max({0} \cup {(MaxFrames + 2) * f + Position(handed[f], h) :
                        f \in {e \in 1..(Len(handed) - 1): Position(handed[e], h) > 0}})

VaoBuffers(d) ==
    UNION {{d.vaos[v].ibo_id, d.vaos[v].main_vbo_id, d.vaos[v].instance_vbo_id}:
              v \in DOMAIN d.vaos}

InitResources ==
    /\ debug_assertions \in BOOLEAN
    /\ LET Of(w) ==
               /\ device = w.device
               /\ gl = w.gl
               /\ renderer = w.renderer
               \* set_external_image_handler has been called
               /\ handler = [w.handler EXCEPT !.present = TRUE]
               /\ hist = [HistNew EXCEPT !.made = VaoBuffers(w.device)]
       IN Of(BeginFrame(Constructed(debug_assertions)))
    /\ result_rx = <<>>
    /\ pc \in {"texture", "vaos", "updates", "programs", "data", "lazy"}
    /\ log = <<>>

\* The textures the operations are given: the dummy cache texture, an array
\* texture of one render target layer, and those created since Renderer::new
GivenTextures ==
    {renderer.dummy_cache_texture_id}
        \cup {t \in DOMAIN device.textures: t.name > renderer.gpu_cache_texture.texture_id.name}

\* One texture operation on texture_id.  relayered: the textures whose
\* framebuffers were last made by update_texture_storage called with a layer
\* count by the caller, not by init_texture.
TextureCall(w, op, texture_id, relayered) ==
    /\ pc = "texture"
    /\ hist.ops < MaxOps
    /\ Commit(w, "texture",
              [hist EXCEPT !.last_op = op, !.ops = @ + 1, !.handle = <<texture_id>>,
                           !.relayered = relayered])
    /\ UNCHANGED result_rx

TexCreateTextureIds ==
    \E target \in {"TEXTURE_2D", "TEXTURE_2D_ARRAY"}:
       TextureCall(CreateTextureIds(World, target), "create_texture_ids",
                   NewTextureId(World, target), hist.relayered)

TexInitTexture ==
    \E texture_id \in GivenTextures, mode \in {ModeNone, ModeSimple, ModeLayer(1), ModeLayer(2)},
       format \in {"BGRA8", "A8"}:
       \* the A8 texture is a layer render target, as the alpha targets are
       /\ format = "A8" => mode.kind = "LayerRenderTarget"
       /\ pc = "texture"
       /\ hist.ops < MaxOps
       /\ Commit(InitTexture(World, texture_id, 1, 1, format, "Linear", mode, <<>>), "texture",
                 [hist EXCEPT !.last_op = "init_texture", !.ops = @ + 1,
                              !.handle = <<texture_id>>,
                              !.relayered = @ \ {texture_id},
                              !.init = [width |-> 1, height |-> 1, format |-> format,
                                        mode |-> mode]])
       /\ UNCHANGED result_rx

TexUpdateTextureStorage ==
    \E texture_id \in GivenTextures, layer_count \in {<<>>, <<1>>, <<2>>}, resized \in BOOLEAN:
       TextureCall(UpdateTextureStorage(World, texture_id, layer_count, resized),
                   "update_texture_storage", texture_id,
                   IF layer_count # <<>> THEN hist.relayered \cup {texture_id}
                   ELSE hist.relayered)

TexResizeTexture ==
    \E texture_id \in GivenTextures, mode \in {ModeNone, ModeSimple, ModeLayer(1), ModeLayer(2)}:
       TextureCall(ResizeTexture(World, texture_id, 2, 2, "BGRA8", "Linear", mode),
                   "resize_texture", texture_id, hist.relayered \ {texture_id})

TexDeinitTexture ==
    \E texture_id \in GivenTextures:
       TextureCall(DeinitTexture(World, texture_id), "deinit_texture", texture_id,
                   hist.relayered \ {texture_id})

\* bind_read_target or bind_draw_target of layer 0 of a texture the caller holds
TexBindTarget ==
    \E texture_id \in GivenTextures, draw \in BOOLEAN:
       TextureCall(IF draw THEN BindDrawTarget(World, <<texture_id, 0>>, <<>>)
                   ELSE BindReadTarget(World, <<texture_id, 0>>),
                   IF draw THEN "bind_draw_target" ELSE "bind_read_target",
                   texture_id, hist.relayered)

\* update_texture of one BGRA8 texel or of a column of two, without a stride
\* or with one of 4, 6 or 8 bytes, on a texture the caller holds or on an id
\* the device never gave out; the data are 16 bytes.  failed: the device does
\* not know the id, or the texture has no storage (its format is Invalid).
TexUpdateTexture ==
    \E texture_id \in GivenTextures \cup {TextureId(99, "TEXTURE_2D")}:
    \E height \in 1..2, stride \in {<<>>, <<4>>, <<6>>, <<8>>}:
       /\ pc = "texture"
       /\ hist.ops < MaxOps
       /\ Commit(UpdateTexture(World, texture_id, 0, 0, 1, height, stride,
                               [len |-> 16, value |-> 7]),
                 "texture",
                 [hist EXCEPT !.last_op = "update_texture", !.ops = @ + 1,
                              !.handle = <<texture_id>>,
                              !.update = [width |-> 1, height |-> height, stride |-> stride],
                              !.failed = IF texture_id \in DOMAIN device.textures
                                         THEN device.textures[texture_id].format = "Invalid"
                                         ELSE TRUE])
       /\ UNCHANGED result_rx

(***************************************************************************)
(* Vertex arrays: any sequence of create_vao and                           *)
(* create_vao_with_new_instances, then the arrays dropped one by one, in   *)
(* any order, as the device's map of them is dropped.                      *)
(***************************************************************************)
\* One vertex array created: vao_id is the id returned
VaoCreated(w, op, vao_id) ==
    /\ pc = "vaos"
    /\ hist.ops < MaxOps
    /\ Commit(w, "vaos",
              [hist EXCEPT !.last_op = op, !.ops = @ + 1,
                           !.handle = IF w.ok THEN <<w.device.vaos[vao_id]>> ELSE <<>>,
                           !.made = IF w.ok THEN VaoBuffers(w.device) ELSE @])
    /\ UNCHANGED result_rx

VaoCreate == VaoCreated(CreateVao(World), "create_vao", gl.gen.vaos + 1)

VaoCreateWithNewInstances ==
    \E base_vao \in DOMAIN device.vaos:
       VaoCreated(CreateVaoWithNewInstances(World, base_vao),
                  "create_vao_with_new_instances", gl.gen.vaos + 1)

\* bind_vao of a vertex array of the device
VaoBind ==
    \E vao_id \in DOMAIN device.vaos:
       /\ pc = "vaos"
       /\ hist.ops < MaxOps
       /\ Commit(BindVao(World, vao_id), "vaos",
                 [hist EXCEPT !.last_op = "bind_vao", !.ops = @ + 1])
       /\ UNCHANGED result_rx

\* One vertex array dropped
VaoDrop ==
    \E vao_id \in DOMAIN device.vaos:
       /\ pc \in {"vaos", "dropping"}
       /\ LET w == DropVao(World, vao_id)
              \* how many times the calls l delete buffer b
              Deletions(l, b) ==
                  Cardinality({i \in DOMAIN l: l[i].op = "delete_buffers" /\ l[i].arg = b})
              now == {w.log[i].arg: i \in {j \in DOMAIN w.log: w.log[j].op = "delete_buffers"}}
          IN Commit(w, "dropping",
                    [hist EXCEPT !.last_op = "drop", !.handle = <<device.vaos[vao_id]>>,
                                 !.deleted = @ \cup now,
                                 !.redeleted =
                                     @ \cup (hist.deleted \cap now)
                                       \cup {b \in now: Deletions(w.log, b) > 1}])
       /\ UNCHANGED result_rx

(***************************************************************************)
(* Texture cache updates: Renderer::update_texture_cache with one pending  *)
(* update, any number of times.                                            *)
(***************************************************************************)
TextureCacheUpdate ==
    \E id \in {0, 1}, op \in {"Create", "Grow", "Update", "UpdateForExternalBuffer", "Free"},
       initial \in {"None", "Raw", "ExternalBuffer"}, size \in {1, 2}:
       LET \* Create makes a texture of size x 1, Grow one of size x size
           update == IF op = "Create"
                     THEN [TextureUpdate(id, op,
                                         IF initial = "Raw" THEN ModeSimple ELSE ModeNone,
                                         initial)
                              EXCEPT !.width = size]
                     ELSE IF op = "Grow"
                     THEN [TextureUpdate(id, op, ModeSimple, "None")
                              EXCEPT !.width = size, !.height = size]
                     ELSE TextureUpdate(id, op, ModeSimple, "None")
           \* the GL image of the texture of the cache id, if it has one
           image == IF id + 1 \in DOMAIN renderer.cache_texture_id_map
                    THEN IF renderer.cache_texture_id_map[id + 1].name \in DOMAIN gl.images
                         THEN <<gl.images[renderer.cache_texture_id_map[id + 1].name]>>
                         ELSE <<>>
                    ELSE <<>>
       IN /\ pc = "updates"
          /\ hist.ops < MaxOps
          /\ op # "Create" => initial = "None"
          /\ op \notin {"Create", "Grow"} => size = 1
          /\ Commit(UpdateTextureCache(
                        [World EXCEPT !.renderer.pending_texture_updates = <<<<update>>>>]),
                    "updates",
                    [hist EXCEPT !.last_op = "update_texture_cache", !.ops = @ + 1,
                                 !.updates = Append(@, update),
                                 !.image = image,
                                 !.maps = Append(@, renderer.cache_texture_id_map),
                                 !.gens = Append(@, gl.gen.textures)])
          /\ UNCHANGED result_rx

(***************************************************************************)
(* Programs: create_program_with_prefix any number of times, the driver    *)
(* accepting or rejecting each shader and each link.                       *)
(***************************************************************************)
ProgramCreate ==
    \E vs_ok \in BOOLEAN, fs_ok \in BOOLEAN, link_ok \in BOOLEAN:
       LET created == CreateProgramWithPrefix(World, vs_ok, fs_ok, link_ok)
       IN /\ pc = "programs"
          /\ hist.ops < MaxOps
          /\ Commit(created.w, "programs",
                    [hist EXCEPT !.last_op = "create_program_with_prefix", !.ops = @ + 1,
                                 !.handle = <<gl.gen.programs + 1>>,
                                 !.result = created.result,
                                 !.failed = ~(vs_ok /\ fs_ok /\ link_ok)])
          /\ UNCHANGED result_rx

\* GpuDataTexture::init of the current layer texture on a vector of up to
\* MaxOps items
DataTextureInit ==
    \E len \in 0..MaxOps, texels_per_item \in 1..MAX_VERTEX_TEXTURE_WIDTH:
       \E data \in [1..len -> {1, 2}]:
          LET id == renderer.gpu_data_textures[renderer.gdt_index + 1].layer_texture
              done == GpuDataTextureInit([World EXCEPT !.frame.layer_texture_data = data],
                                         id, "layer_texture_data", texels_per_item)
          IN /\ pc = "data"
             /\ hist.ops < MaxOps
             /\ Commit(done, "data",
                       [hist EXCEPT !.last_op = "gpu_data_texture_init", !.ops = @ + 1,
                                    !.handle = <<id>>,
                                    !.data = [given |-> data,
                                              after |-> done.frame.layer_texture_data,
                                              texels_per_item |-> texels_per_item]])
             /\ UNCHANGED result_rx

\* What the driver may report for a program: success, a vertex shader that
\* does not compile, a program that does not link
ShaderStatuses == {Compiles, [Compiles EXCEPT !.vs = FALSE], [Compiles EXCEPT !.link = FALSE]}

\* LazilyCompiledShader::new for cs_blur, whose program is renderer.programs
\* of that name; on Err no shader is returned
LazyShaderNew ==
    \E precache \in BOOLEAN, status \in ShaderStatuses:
       LET got == IF precache THEN ShaderGet(World, "cs_blur", status)
                  ELSE [w |-> World, result |-> "Ok"]
       IN /\ pc = "lazy"
          /\ hist.ops = 0
          /\ Commit(got.w, "lazy",
                    [hist EXCEPT !.last_op = "lazy_new", !.ops = @ + 1,
                                 !.result = got.result,
                                 !.shader = [exists |-> got.w.ok /\ got.result = "Ok",
                                             precache |-> precache,
                                             before |-> renderer.programs["cs_blur"]]])
          /\ UNCHANGED result_rx

\* LazilyCompiledShader::get on the shader made by new
LazyShaderGet ==
    \E status \in ShaderStatuses:
       LET got == ShaderGet(World, "cs_blur", status)
       IN /\ pc = "lazy"
          /\ hist.shader.exists
          /\ hist.ops < MaxOps
          /\ Commit(got.w, "lazy",
                    [hist EXCEPT !.last_op = "lazy_get", !.ops = @ + 1,
                                 !.result = got.result,
                                 !.shader.before = renderer.programs["cs_blur"]])
          /\ UNCHANGED result_rx

\* LazilyCompiledShader::bind on the shader made by new
LazyShaderBind ==
    \E status \in ShaderStatuses:
       /\ pc = "lazy"
       /\ hist.shader.exists
       /\ hist.ops < MaxOps
       /\ Commit(ShaderBind(World, "cs_blur", status), "lazy",
                 [hist EXCEPT !.last_op = "lazy_bind", !.ops = @ + 1,
                              !.result = "Ok",
                              !.shader.before = renderer.programs["cs_blur"]])
       /\ UNCHANGED result_rx

NextResources ==
    \/ TexCreateTextureIds
    \/ TexInitTexture
    \/ TexUpdateTextureStorage
    \/ TexResizeTexture
    \/ TexDeinitTexture
    \/ TexUpdateTexture
    \/ TexBindTarget
    \/ VaoCreate
    \/ VaoCreateWithNewInstances
    \/ VaoBind
    \/ VaoDrop
    \/ TextureCacheUpdate
    \/ ProgramCreate
    \/ DataTextureInit
    \/ LazyShaderNew
    \/ LazyShaderGet
    \/ LazyShaderBind

SpecResources == InitResources /\ [][NextResources]_vars

(***************************************************************************)
(* Texture records                                                         *)
(***************************************************************************)

\* A texture operation has returned
TextureOpReturned == pc = "texture" /\ hist.ops > 0

\* The record of texture t says LayerRenderTarget(N), and t is an array
\* texture with N framebuffers
LayerModeKept(t) ==
    device.textures[t].mode.kind = "LayerRenderTarget"
        => /\ t.target = "TEXTURE_2D_ARRAY"
           /\ Len(device.textures[t].fbo_ids) = device.textures[t].mode.layers

\* C16 (as stated): after any sequence of create_texture_ids, init_texture,
\* update_texture_storage, resize_texture and deinit_texture, every texture
\* record whose mode is LayerRenderTarget(N) is an array texture with exactly N
\* framebuffers.
C16_LayerModeHasArrayTargetAndNFramebuffers ==
    pc = "texture" => \A t \in DOMAIN device.textures: LayerModeKept(t)

\* C16 (amended): the same, for the records that are initialised (their format
\* is not Invalid: deinit_texture drops the framebuffers and leaves the mode)
\* and whose framebuffers were last made by init_texture, not by a caller's own
\* update_texture_storage with a layer count.
C16_InitialisedLayerModeHasArrayTargetAndNFramebuffers ==
    pc = "texture" =>
        \A t \in DOMAIN device.textures:
            device.textures[t].format # "Invalid" /\ t \notin hist.relayered
                => LayerModeKept(t)

\* init_texture has returned for a second array texture in LayerRenderTarget(2)
\* mode, which has two framebuffers
C16_Witness ==
    /\ TextureOpReturned
    /\ hist.last_op = "init_texture"
    /\ \E t \in DOMAIN device.textures:
          /\ hist.handle = <<t>>
          /\ t # renderer.dummy_cache_texture_id
          /\ device.textures[t].mode = ModeLayer(2)
          /\ Len(device.textures[t].fbo_ids) = 2

\* C17 (as stated): a texture record holds a depth renderbuffer if and only if
\* it holds at least one framebuffer.
C17_DepthRenderbufferIffFramebuffer ==
    pc = "texture" =>
        \A t \in DOMAIN device.textures:
            device.textures[t].depth_rb # 0 <=> device.textures[t].fbo_ids # <<>>

\* C17 (amended): a texture record holds a depth renderbuffer if and only if it
\* is an array texture that holds at least one framebuffer, one per render
\* target layer; the single framebuffer of a 2D texture, made for a
\* SimpleRenderTarget or by resize_texture, comes without a depth renderbuffer.
C17_DepthRenderbufferIffLayerFramebuffer ==
    pc = "texture" =>
        \A t \in DOMAIN device.textures:
            device.textures[t].depth_rb # 0
                <=> (t.target = "TEXTURE_2D_ARRAY" /\ device.textures[t].fbo_ids # <<>>)

\* init_texture has returned for a 2D texture in SimpleRenderTarget mode, which
\* has a framebuffer and no depth renderbuffer, while the dummy cache texture has
\* a framebuffer and a depth renderbuffer
C17_Witness ==
    /\ TextureOpReturned
    /\ hist.last_op = "init_texture"
    /\ \E t \in DOMAIN device.textures:
          /\ hist.handle = <<t>>
          /\ t.target = "TEXTURE_2D"
          /\ device.textures[t].mode = ModeSimple
          /\ Len(device.textures[t].fbo_ids) = 1
          /\ device.textures[t].depth_rb = 0
    /\ device.textures[renderer.dummy_cache_texture_id].depth_rb # 0
    /\ device.textures[renderer.dummy_cache_texture_id].fbo_ids # <<>>

(***************************************************************************)
(* Vertex arrays                                                           *)
(***************************************************************************)

\* The vertex arrays, and the role in each, that own buffer b
Owners(b) ==
    {o \in (DOMAIN device.vaos) \X {"indices", "vertices", "instances"}:
        LET vao == device.vaos[o[1]]
        IN \/ o[2] = "indices" /\ vao.owns_indices /\ vao.ibo_id = b
           \/ o[2] = "vertices" /\ vao.owns_vertices /\ vao.main_vbo_id = b
           \/ o[2] = "instances" /\ vao.owns_instances /\ vao.instance_vbo_id = b}

\* The delete_buffers calls of the last operation
BufferDeletes == SelectSeq(log, LAMBDA c: c.op = "delete_buffers")

\* C18: after any sequence of create_vao and create_vao_with_new_instances every
\* buffer the vertex arrays name is owned by exactly one of them, in one role;
\* no buffer is ever deleted twice; once all the vertex arrays are dropped, in
\* whatever order, exactly the buffers made for them have been deleted; and the
\* drop of an array made by create_vao_with_new_instances deletes its instance
\* buffer and nothing else.
C18_BuffersOwnedOnceAndDeletedOnce ==
    /\ pc = "vaos" => \A b \in VaoBuffers(device): Cardinality(Owners(b)) = 1
    /\ pc \in {"vaos", "dropping"} => hist.redeleted = {} /\ hist.deleted \subseteq hist.made
    /\ pc = "dropping" /\ DOMAIN device.vaos = {} => hist.deleted = hist.made
    /\ pc = "dropping" /\ ~hist.handle[1].owns_vertices
           => BufferDeletes = <<G("delete_buffers", "", hist.handle[1].instance_vbo_id)>>

\* Vertex arrays of both kinds were created, one on top of an array that
\* shares its buffers, and all have been dropped, an array sharing the
\* buffers of another one last
C18_Witness ==
    /\ pc = "dropping"
    /\ DOMAIN device.vaos = {}
    /\ hist.ops >= 3
    /\ Cardinality(hist.made) = 10
    /\ ~hist.handle[1].owns_vertices
    /\ hist.handle[1].main_vbo_id \in hist.deleted

(***************************************************************************)
(* The map from cache ids to texture handles                               *)
(***************************************************************************)

\* The k-th texture cache update applied left the map as it was
MapUnchangedBy(k) ==
    LET after == IF k = Len(hist.maps) THEN renderer.cache_texture_id_map ELSE hist.maps[k + 1]
    IN after = hist.maps[k]

\* C19: a Create whose cache id is the length of the map appends one handle, a
\* 2D texture that was not in the map, and allocates that one texture; a Create
\* with a smaller id allocates none and leaves the map unchanged, as Grow,
\* Update, UpdateForExternalBuffer and Free do; and a Create that
\* follows a Free of the same cache id finds the id on the handle it had, with
\* no texture allocated.
C19_MapGrowsOnlyByCreateAtLength ==
    pc = "updates" /\ hist.updates # <<>> =>
        LET k == Len(hist.updates)
            update == hist.updates[k]
            before == hist.maps[k]
            after == renderer.cache_texture_id_map
        IN /\ IF update.op = "Create" /\ update.id = Len(before)
              THEN /\ after = Append(before, TextureId(gl.gen.textures, "TEXTURE_2D"))
                   /\ gl.gen.textures = hist.gens[k] + 1
                   /\ \A i \in DOMAIN before: before[i] # after[Len(after)]
              ELSE MapUnchangedBy(k)
           /\ update.op = "Create" /\ update.id < Len(before)
                  => gl.gen.textures = hist.gens[k]
           /\ k > 1 /\ update.op = "Create" /\ hist.updates[k - 1].op = "Free"
                 /\ hist.updates[k - 1].id = update.id
                  => /\ after[update.id + 1] = hist.maps[k - 1][update.id + 1]
                     /\ gl.gen.textures = hist.gens[k - 1]

\* Cache id 0 was created, freed and created again, and is on the handle it
\* had at first
C19_Witness ==
    /\ pc = "updates"
    /\ Len(hist.updates) = 3
    /\ hist.updates[1].op = "Create" /\ hist.updates[1].id = 0
    /\ hist.updates[2].op = "Free" /\ hist.updates[2].id = 0
    /\ hist.updates[3].op = "Create" /\ hist.updates[3].id = 0
    /\ hist.maps[1] = <<>>
    /\ Len(renderer.cache_texture_id_map) = 1
    /\ renderer.cache_texture_id_map = hist.maps[2]
    /\ device.textures[renderer.cache_texture_id_map[1]].format # "Invalid"

(***************************************************************************)
(* Programs                                                                *)
(***************************************************************************)

\* C20: when the driver rejects a shader or the link inside
\* create_program_with_prefix, the call returns ShaderError::Compilation or
\* ShaderError::Link, no assertion fails, and no shader is attached to the
\* program object it created.
C20_ShaderFailureIsRecoverable ==
    hist.last_op = "create_program_with_prefix" /\ hist.failed =>
        /\ pc = "programs"
        /\ hist.result \in {"Err(ShaderError::Compilation)", "Err(ShaderError::Link)"}
        /\ \A a \in gl.attached: a[1] # hist.handle[1]

\* The uploads of texels among the GL calls of the last operation
TexelUploads == SelectSeq(log, LAMBDA c: c.op \in {"tex_sub_image_2d", "tex_sub_image_2d_pbo", "tex_image"})

\* C21: update_texture on a texture id the device does not know, or on a
\* texture whose storage is gone (format Invalid), panics and uploads nothing.
C21_UpdateOfUnknownOrFreedTexturePanics ==
    hist.last_op = "update_texture" /\ hist.failed
        => pc = "panicked" /\ TexelUploads = <<>>

\* update_texture has panicked on the dummy cache texture, which had been
\* initialised by Renderer::new and deinitialised since
C21_Witness ==
    /\ pc = "panicked"
    /\ hist.last_op = "update_texture"
    /\ hist.failed
    /\ hist.ops = 2
    /\ hist.handle = <<renderer.dummy_cache_texture_id>>
    /\ device.textures[renderer.dummy_cache_texture_id].mode = ModeLayer(1)
    /\ device.textures[renderer.dummy_cache_texture_id].format = "Invalid"

(***************************************************************************)
(* Growing a texture                                                       *)
(***************************************************************************)

\* The last texture cache update, which has returned, is a Grow
GrowReturned ==
    /\ pc = "updates"
    /\ hist.updates # <<>>
    /\ hist.updates[Len(hist.updates)].op = "Grow"

\* C22: after resize_texture to a size that is at least the old one in both
\* dimensions, the texture record has the new dimensions, every texel of the old
\* region holds the value it had, and the temporary texture is deinitialised:
\* format Invalid, size 0 x 0, no framebuffer.
C22_ResizeKeepsTexelsAndFreesTemporary ==
    GrowReturned =>
        LET k == Len(hist.updates)
            update == hist.updates[k]
            texture_id == renderer.cache_texture_id_map[update.id + 1]
            temp == device.textures[TextureId(hist.gens[k] + 1, "TEXTURE_2D")]
            old == hist.image[1]
            new == gl.images[texture_id.name]
        IN update.width >= old.width /\ update.height >= old.height =>
              /\ device.textures[texture_id].width = update.width
              /\ device.textures[texture_id].height = update.height
              /\ new.width = update.width /\ new.height = update.height
              /\ \A x \in 0..(old.width - 1), y \in 0..(old.height - 1):
                    new.texels[y * new.width + x] = old.texels[y * old.width + x]
              /\ temp.format = "Invalid" /\ temp.width = 0 /\ temp.height = 0
              /\ temp.fbo_ids = <<>> /\ temp.depth_rb = 0

\* A texture of 2 x 1 whose first texel was written has grown to 2 x 2: the
\* first texel has the value written, the second is as undefined as before
C22_Witness ==
    /\ GrowReturned
    /\ Len(hist.updates) = 3
    /\ hist.updates[2].op = "Update"
    /\ hist.image[1].width = 2 /\ hist.image[1].height = 1
    /\ hist.image[1].texels[0] = 9
    /\ gl.images[renderer.cache_texture_id_map[1].name].width = 2
    /\ gl.images[renderer.cache_texture_id_map[1].name].height = 2
    /\ gl.images[renderer.cache_texture_id_map[1].name].texels[0] = 9
    /\ gl.images[renderer.cache_texture_id_map[1].name].texels[1] = Undefined

\* C23: GpuDataTexture::init on a non-empty vector of len items, with
\* items_per_row > 0, records and uploads a texture of height
\* ceil(len / items_per_row) whose texels are those of a vector of exactly
\* items_per_row * height items: the given items followed by default (zero)
\* items; on an empty vector it makes no device call and leaves the vector as
\* it is.
C23_DataTextureIsPaddedToWholeRows ==
    hist.last_op = "gpu_data_texture_init" /\ pc = "data" =>
        LET given == hist.data.given
            after == hist.data.after
            per_item == hist.data.texels_per_item
            width == MAX_VERTEX_TEXTURE_WIDTH - (MAX_VERTEX_TEXTURE_WIDTH % per_item)
            items_per_row == width \div per_item
            rows == (Len(given) + items_per_row - 1) \div items_per_row
            id == hist.handle[1]
        IN IF given = <<>> THEN log = <<>> /\ after = given
           ELSE items_per_row > 0 =>
                /\ Len(after) = items_per_row * rows
                /\ \A i \in 1..Len(after):
                      after[i] = IF i <= Len(given) THEN given[i] ELSE EmptyBlock
                /\ device.textures[id].width = width
                /\ device.textures[id].height = rows
                /\ gl.images[id.name].width = width
                /\ gl.images[id.name].height = rows
                /\ \A t \in 0..(width * rows - 1):
                      gl.images[id.name].texels[t] = after[(t \div per_item) + 1]

\* C23 witness: three items in rows of two were padded with one default item
\* and uploaded as two rows
C23_Witness ==
    /\ pc = "data"
    /\ hist.last_op = "gpu_data_texture_init"
    /\ hist.data.given = <<1, 2, 2>>
    /\ hist.data.after = <<1, 2, 2, EmptyBlock>>
    /\ hist.data.texels_per_item = 1
    /\ gl.images[hist.handle[1].name].height = 2
    /\ gl.images[hist.handle[1].name].texels[3] = EmptyBlock

\* Number of glCreateProgram calls of the last operation
ProgramsCreated == Len(SelectSeq(log, LAMBDA c: c.op = "create_program"))

\* C24: a LazilyCompiledShader made without precache has no program and new
\* compiles nothing; a get or bind that succeeds on a shader without a program
\* creates exactly one, and on a shader that has a program creates none and
\* keeps that program; with precache the program exists when new returns Ok.
C24_ProgramCreatedOnFirstUseAndReused ==
    pc = "lazy" =>
        LET program == renderer.programs["cs_blur"]
        IN /\ hist.last_op = "lazy_new" /\ ~hist.shader.precache =>
                 program = 0 /\ log = <<>> /\ hist.shader.exists
           /\ hist.last_op = "lazy_new" /\ hist.shader.precache /\ hist.shader.exists =>
                 program = gl.gen.programs /\ program # 0 /\ ProgramsCreated = 1
           /\ hist.last_op \in {"lazy_get", "lazy_bind"} /\ hist.result = "Ok" =>
                 IF hist.shader.before # 0
                 THEN program = hist.shader.before /\ ProgramsCreated = 0
                 ELSE program = gl.gen.programs /\ program # 0 /\ ProgramsCreated = 1
           /\ hist.last_op = "lazy_bind" => device.bound_program = program

\* C24 witness: a shader made without precache got its program at the first
\* get, and the bind that followed reused it
C24_Witness ==
    /\ pc = "lazy"
    /\ hist.ops = 3
    /\ hist.last_op = "lazy_bind"
    /\ ~hist.shader.precache
    /\ hist.shader.before = 1
    /\ renderer.programs["cs_blur"] = 1
    /\ gl.gen.programs = 1

\* C25 as stated: whatever the backend thread sends and whenever, a call of
\* update() ends.
C25_UpdateAlwaysReturns == (pc = "update") ~> (pc # "update")

\* C25: update() ends unless the backend thread sends for ever; and a step
\* of update() that finds the channel empty is its return, which changes
\* nothing of the renderer or the device.
C25_UpdateReturnsUnlessBackendSendsForEver ==
    /\ []<><<BackendSend \/ BackendStream>>_vars \/ ((pc = "update") ~> (pc # "update"))
    /\ [][pc = "update" /\ result_rx = <<>> /\ result_rx' = <<>>
             => pc' = "idle" /\ UNCHANGED <<renderer, device, gl>>]_vars

\* C25 witness: update() returned on an empty channel after handling two
\* messages, the second an UpdateResources
C25_Witness ==
    /\ pc = "idle"
    /\ hist.last_op = "update"
    /\ Len(hist.received) = 2
    /\ hist.received[2].type = "UpdateResources"
    /\ hist.sent = MaxMsgs
    /\ result_rx = <<>>

\* C26: when CacheTexture::update reallocates the texture (the height of the
\* list is greater than the height the texture had), every row the shadow had
\* before the call is dirty afterwards, whatever the height was, 0 included.
C26_ReallocationMarksShadowRowsDirty ==
    pc = "cache" /\ hist.last_op = "update" /\ CacheTextureHeight > hist.size[1] =>
        \A row \in 1..hist.size[2]: renderer.gpu_cache_texture.rows[row]

\* The positions of the calls `op` in the log of the last operation
CallsOf(op) == {i \in DOMAIN log: log[i].op = op}

\* C27: after a render() of a frame with deferred resolves, the shadow block
\* at the address of each resolve is the block of the image locked for the
\* last resolve to that address, whatever the queued update lists wrote
\* there, and so is the texel of the GPU cache texture; every lock of a
\* resolve comes before the uploads of flush, the row of the resolve is
\* uploaded, and every upload comes before every clear and draw of the frame.
C27_ResolvePatchOverridesAndIsUploadedBeforeDraws ==
    (/\ Returned("render")
     /\ renderer.current_frame # <<>>
     /\ renderer.current_frame[1].frame # <<>>
     /\ RenderedFrame.deferred_resolves # <<>>) =>
        LET resolves == RenderedFrame.deferred_resolves
            cache == renderer.gpu_cache_texture
            Index(address) == address.v * MAX_VERTEX_TEXTURE_WIDTH + address.u
            LastTo(address) ==
                Max({j \in DOMAIN resolves: resolves[j].address = address})
            uploads == CallsOf("tex_sub_image_2d_pbo")
            drawn == CallsOf("draw_indexed_triangles_instanced") \cup CallsOf("clear")
        IN /\ \A j \in DOMAIN resolves:
                 LET address == resolves[j].address
                     block == resolves[LastTo(address)].key
                 IN /\ cache.cpu_blocks[Index(address) + 1] = block
                    /\ gl.images[cache.texture_id.name].texels[Index(address)] = block
                    /\ \E u \in uploads: log[u].arg = address.v
                    /\ \A l \in CallsOf("lock"), u \in uploads:
                          log[l].arg = resolves[j].key => l < u
           /\ \A u \in uploads, d \in drawn: u < d

\* C27 witness: the frame whose queued update list writes block 7 at (0, 0)
\* and whose resolve of image 2 has that address was rendered; the list was
\* applied in this render (it allocated the texture), the block is that of
\* the image, and the frame drew
C27_Witness ==
    /\ Returned("render")
    /\ renderer.current_frame # <<>>
    /\ renderer.current_frame[1].frame # <<>>
    /\ RenderedFrame.deferred_resolves = <<DeferredResolve(2, "TextureRectHandle", 0, 0)>>
    /\ CallsOf("tex_image") # {}
    /\ CallsOf("lock") # {}
    /\ CallsOf("draw_indexed_triangles_instanced") # {}
    /\ renderer.gpu_cache_texture.cpu_blocks[1] = 2
    /\ gl.images[renderer.gpu_cache_texture.texture_id.name].texels[0] = 2

\* The argument of the last call `op` at or before position i of the log,
\* 0 when there is none
RECURSIVE LastArg(_, _)
LastArg(op, i) ==
    IF i = 0 THEN 0 ELSE IF log[i].op = op THEN log[i].arg ELSE LastArg(op, i - 1)

\* The texture unit that is active at position i of the log
UnitAt(i) == LastArg("active_texture", i - 1)

\* The positions of the log at which an array texture is bound to `unit`
ArrayBinds(unit) ==
    {j \in DOMAIN log: /\ log[j].op = "bind_texture"
                       /\ log[j].target = "TEXTURE_2D_ARRAY"
                       /\ UnitAt(j) = unit}

\* The array texture bound at position i of the log by the last of `binds`
BoundAt(i, binds) ==
    LET before == {j \in binds: j < i}
    IN IF before = {} THEN -1 ELSE log[Max(before)].arg

\* The pass in whose loop body position i of the log lies
PassAt(i) == LastArg("pass", i)

\* The texture of `kind` pass i of the frame rendered was given, read from
\* the textures start_frame initialised; the dummy cache texture for a pass
\* without one and for i = 0
TargetOfPass(i, kind) ==
    LET passes == RenderedFrame.passes
        handed == hist.handed[kind][Len(hist.handed[kind])]
        before == {q \in 1..i: NeedsRenderTargetKind(passes[q], kind)}
    IN IF i = 0 \/ i \notin before THEN renderer.dummy_cache_texture_id.name
       ELSE handed[Cardinality(before)]

\* C28: at every draw call and every clear of pass k, texture unit CacheA8
\* has the alpha texture of pass k - 1 bound and unit CacheRGBA8 its colour
\* texture, the dummy cache texture standing for a texture the pass before
\* did not have and for both textures in the first pass.
C28_CacheSamplersHoldTargetsOfPassBefore ==
    pc = "frame" /\ hist.last_op = "render" /\ RenderedFrame.passes # <<>> =>
        LET alpha == ArrayBinds(TextureSampler.CacheA8)
            color == ArrayBinds(TextureSampler.CacheRGBA8)
        IN \A d \in CallsOf("draw_indexed_triangles_instanced") \cup CallsOf("clear"):
              /\ BoundAt(d, alpha) = TargetOfPass(PassAt(d) - 1, "Alpha")
              /\ BoundAt(d, color) = TargetOfPass(PassAt(d) - 1, "Color")

\* C28 witness: a frame of three passes whose first pass has a colour and an
\* alpha target and whose second has a colour target only was rendered: the
\* last draw call, in the third pass, has the colour texture of the second
\* pass and the dummy texture bound
C28_Witness ==
    /\ pc = "frame"
    /\ hist.last_op = "render"
    /\ Len(RenderedFrame.passes) = 3
    /\ LET d == DrawCallBeforeLast(0)
       IN /\ PassAt(d) = 3
          /\ BoundAt(d, ArrayBinds(TextureSampler.CacheA8)) = renderer.dummy_cache_texture_id.name
          /\ BoundAt(d, ArrayBinds(TextureSampler.CacheRGBA8)) = TargetOfPass(2, "Color")
          /\ TargetOfPass(2, "Color") # renderer.dummy_cache_texture_id.name
          /\ TargetOfPass(1, "Alpha") # renderer.dummy_cache_texture_id.name

\* The positions of the texel transfers in the log of the last operation
UploadCalls ==
    CallsOf("tex_image") \cup CallsOf("tex_sub_image_2d") \cup CallsOf("tex_sub_image_2d_pbo")

\* C29: an update_texture_cache that returns from a Create with an
\* ExternalBuffer image, or from an UpdateForExternalBuffer, has locked the
\* image once and unlocked it once, the lock before and the unlock after
\* every texel transfer of the operation, of which there is one; the texture
\* holds the texels of the buffer and the image is not left locked.
C29_ExternalBufferLockedAroundUpload ==
    (/\ pc = "updates"
     /\ hist.last_op = "update_texture_cache"
     /\ LET update == hist.updates[Len(hist.updates)]
        IN \/ update.op = "UpdateForExternalBuffer"
           \/ update.op = "Create" /\ update.source = "ExternalBuffer") =>
        LET update == hist.updates[Len(hist.updates)]
            locks == {i \in CallsOf("lock"): log[i].arg = update.key}
            unlocks == {i \in CallsOf("unlock"): log[i].arg = update.key}
        IN /\ Cardinality(locks) = 1
           /\ Cardinality(unlocks) = 1
           /\ CallsOf("lock") = locks
           /\ CallsOf("unlock") = unlocks
           /\ UploadCalls # {}
           /\ \A l \in locks, u \in UploadCalls, n \in unlocks: l < u /\ u < n
           /\ handler.locks[update.key] = 0
           /\ gl.images[renderer.cache_texture_id_map[update.id + 1].name].texels[0]
                 = update.data.value

\* C29 witness: a texture created from an external buffer was then updated
\* from the buffer
C29_Witness ==
    /\ pc = "updates"
    /\ hist.last_op = "update_texture_cache"
    /\ Len(hist.updates) = 2
    /\ hist.updates[1].op = "Create"
    /\ hist.updates[1].source = "ExternalBuffer"
    /\ hist.updates[2].op = "UpdateForExternalBuffer"
    /\ CallsOf("tex_sub_image_2d") # {}
    /\ CallsOf("unlock") # {}

\* Whether GL_BLEND was last enabled at or before position i of the log;
\* render() disables it before the first pass
RECURSIVE BlendAt(_)
BlendAt(i) ==
    IF i = 0 THEN FALSE
    ELSE IF log[i].op \in {"enable", "disable"} /\ log[i].target = "BLEND"
    THEN log[i].op = "enable"
    ELSE BlendAt(i - 1)

\* The blend function that was last set at or before position i of the log
RECURSIVE BlendFuncAt(_)
BlendFuncAt(i) ==
    IF i = 0 THEN "" ELSE IF log[i].op = "blend_func" THEN log[i].target ELSE BlendFuncAt(i - 1)

\* C30: at the moment each alpha batch of a colour target is submitted, the
\* GL blend state matches the blend mode of the batch: blend is disabled for
\* None, and enabled with the alpha, premultiplied alpha or subpixel function,
\* the latter with the colour of the batch as the blend colour, otherwise;
\* after the last alpha batch depth test and blend are disabled.  Stated on
\* the draw calls of the last colour target render() drew.
C30_BlendStateMatchesAlphaBatch ==
    (pc = "frame" /\ hist.last_op = "render" /\ RenderedFrame.passes # <<>>
        /\ LastTarget.kind = "Color" /\ LastTarget.target.alpha_batches # <<>>)
        => LET alpha == LastTarget.target.alpha_batches
               m == Len(alpha)
           IN /\ Cardinality(DrawCalls) >= m
              /\ \A k \in 1..m:
                    LET d == DrawCallBeforeLast(m - k)
                        mode == alpha[k].blend_mode
                    IN /\ log[d].arg = alpha[k].instances
                       /\ BlendAt(d) <=> mode # "None"
                       /\ mode = "Alpha" => BlendFuncAt(d) = "alpha"
                       /\ mode = "PremultipliedAlpha" => BlendFuncAt(d) = "premultiplied_alpha"
                       /\ mode = "Subpixel"
                              => /\ BlendFuncAt(d) = "subpixel"
                                 /\ LastArg("blend_color", d) = alpha[k].blend_color
              /\ LET last == DrawCallBeforeLast(0)
                 IN /\ \E i \in (last + 1)..Len(log):
                          log[i].op = "disable" /\ log[i].target = "DEPTH_TEST"
                    /\ \E i \in (last + 1)..Len(log):
                          log[i].op = "disable" /\ log[i].target = "BLEND"
                    /\ ~BlendAt(Len(log))
                    /\ ~DepthTestAt(Len(log) + 1)
                    /\ ~gl.caps["BLEND"]
                    /\ ~gl.caps["DEPTH_TEST"]

\* A colour target was drawn whose alpha batches have every blend mode, two
\* consecutive ones subpixel of different colours, and the blend colour is
\* that of the second
C30_Witness ==
    /\ pc = "frame"
    /\ hist.last_op = "render"
    /\ RenderedFrame.passes # <<>>
    /\ LastTarget.kind = "Color"
    /\ LET alpha == LastTarget.target.alpha_batches
       IN /\ {alpha[k].blend_mode : k \in DOMAIN alpha}
                 = {"None", "Alpha", "PremultipliedAlpha", "Subpixel"}
          /\ \E k \in 1..(Len(alpha) - 1):
                /\ alpha[k].blend_mode = "Subpixel"
                /\ alpha[k + 1].blend_mode = "Subpixel"
                /\ alpha[k].blend_color # alpha[k + 1].blend_color
                /\ gl.blend_color = alpha[k + 1].blend_color
    /\ Cardinality(DrawCalls) >= 6

\* The framebuffer GL has bound for drawing at position i of the log, 0 when
\* the operation has bound none yet
RECURSIVE DrawFboAt(_)
DrawFboAt(i) ==
    IF i = 0 THEN 0
    ELSE IF log[i].op = "bind_framebuffer" /\ log[i].target = "DRAW_FRAMEBUFFER" THEN log[i].arg
    ELSE DrawFboAt(i - 1)

\* The framebuffer of layer `layer` of the colour texture that pass p of the
\* frame rendered was given; that of the dummy cache texture for p = 0
ColorFboOfPass(p, layer) ==
    TargetFbo(World, <<TextureId(TargetOfPass(p, "Color"), "TEXTURE_2D_ARRAY"), layer>>, 0)

\* The first draw call after position i of the log
DrawCallAfter(i) == CHOOSE d \in DrawCalls: d > i /\ \A e \in DrawCalls: e > i => d <= e

\* C31: submit_batch of a Composite batch blits into layer readback.data[4]
\* of the cache texture, the colour texture of the pass before, and issues
\* the instanced draw after the blit, with the draw framebuffer and the
\* viewport those of the render target of the pass, as they were before the
\* call.  Stated on every blit of a render(): the framebuffer bound for
\* drawing at the blit, and at the draw call that follows it and at the draw
\* call or clear that precedes the readback.
C31_CompositeDrawsToPassTargetAfterReadback ==
    (pc = "frame" /\ hist.last_op = "render")
        => \A b \in CallsOf("blit_framebuffer"):
              LET p == PassAt(b)
                  pass == RenderedFrame.passes[p]
                  Target(layer) ==
                      IF pass.is_framebuffer THEN device.default_draw_fbo
                      ELSE ColorFboOfPass(p, layer)
                  height == IF pass.is_framebuffer THEN hist.size[2]
                            ELSE RenderedFrame.cache_size[2]
              IN /\ p \in DOMAIN RenderedFrame.passes
                 /\ \E d \in DrawCalls: d > b
                 /\ \E j \in DOMAIN pass.color_targets:
                    \E k \in DOMAIN pass.color_targets[j].alpha_batches:
                       LET batch == pass.color_targets[j].alpha_batches[k]
                           d == DrawCallAfter(b)
                       IN /\ batch.kind = "Composite"
                          /\ DrawFboAt(b) = ColorFboOfPass(p - 1, batch.tasks.readback[5])
                          /\ DrawFboAt(b) > 0
                          /\ DrawFboAt(d) = Target(j - 1)
                          /\ LastArg("viewport", d) = height
                          /\ log[d].arg = batch.instances
                          \* no other blit between the readback and the draw
                          /\ CallsOf("blit_framebuffer") \cap (b + 1)..d = {}
                          \* the target and the viewport are set again after the blit
                          /\ \E r \in (b + 1)..(d - 1): log[r].op = "viewport"
                          /\ (DrawFboAt(b) # Target(j - 1))
                                => \E r \in (b + 1)..(d - 1):
                                      /\ log[r].op = "bind_framebuffer"
                                      /\ log[r].target = "DRAW_FRAMEBUFFER"

\* A frame with a Composite batch in an intermediate target and one in the
\* framebuffer was drawn to the larger framebuffer: after the second
\* readback the default framebuffer and the viewport of the window are back
C31_Witness ==
    /\ pc = "frame"
    /\ hist.last_op = "render"
    /\ hist.size = <<4, 8>>
    /\ Cardinality(CallsOf("blit_framebuffer")) = 2
    /\ LET b == Max(CallsOf("blit_framebuffer"))
       IN /\ RenderedFrame.passes[PassAt(b)].is_framebuffer
          /\ DrawFboAt(b) # device.default_draw_fbo
          /\ DrawFboAt(DrawCallAfter(b)) = device.default_draw_fbo
    /\ gl.draw_fbo = device.default_draw_fbo
    /\ gl.viewport = <<4, 8>>

\* The handles of `kind` the passes of the last frame rendered were given,
\* in pass order
HandedLast(kind) == hist.handed[kind][Len(hist.handed[kind])]

\* The handles of `kind` the passes of the frame rendered before the last
\* were given
HandedBefore(kind) == hist.handed[kind][Len(hist.handed[kind]) - 1]

\* C32: if two consecutive rendered frames have the same number of passes
\* requiring a target kind, pass i of the second frame receives the texture
\* handle pass i received in the first frame, whatever frames were rendered
\* before them.
C32_SameHandlesForSamePassCount ==
    (pc = "frame" /\ hist.last_op = "render" /\ hist.renders >= 2)
        => \A kind \in {"Color", "Alpha"}:
              Len(HandedLast(kind)) = Len(HandedBefore(kind))
                 => HandedLast(kind) = HandedBefore(kind)

\* C32, amended: if two consecutive rendered frames have the same number n
\* of passes requiring a target kind, pass i of the second frame receives
\* the handle pass i received in the first when the first frame used every
\* handle of the free list of the kind, that is when the list holds n
\* handles between the two frames; when an earlier frame left more handles
\* in the list, the first such pass of the second frame receives a handle
\* the first frame did not use.
C32_SameHandlesWhenNoHandleWaited ==
    (pc = "frame" /\ hist.last_op = "render" /\ hist.renders >= 2)
        => \A kind \in {"Color", "Alpha"}:
              LET last == HandedLast(kind)
                  before == HandedBefore(kind)
                  n == Len(before)
              IN Len(last) = n
                    => IF Len(hist.pools[kind]) = n THEN last = before
                       ELSE /\ Len(hist.pools[kind]) > n
                            /\ n > 0 => \A i \in 1..n: last[1] # before[i]

\* Three frames were drawn, each with two passes that require a colour
\* target; the third frame found the two handles in the list and gave each
\* pass the handle it had in the second
C32_Witness ==
    /\ pc = "frame"
    /\ hist.last_op = "render"
    /\ hist.renders = 3
    /\ Len(hist.pools["Color"]) = 2
    /\ Len(HandedBefore("Color")) = 2
    /\ HandedLast("Color") = HandedBefore("Color")
    /\ HandedLast("Color")[1] # HandedLast("Color")[2]

(***************************************************************************)
(* The bytes update_texture uploads                                        *)
(***************************************************************************)

\* C33: update_texture with stride Some(s) on a texture of bpp bytes per
\* pixel, for a rectangle of width w and height h >= 1, uploads exactly the
\* first s * (h - 1) + w * bpp bytes of the data, for strides that are a
\* multiple of bpp and for strides that are not.
C33_StridedUploadLength ==
    (pc = "texture" /\ hist.last_op = "update_texture" /\ hist.update.stride # <<>>)
        => LET bpp == BytesPerPixel(device.textures[hist.handle[1]].format)
               given == hist.update
           IN /\ Cardinality(CallsOf("data")) = 1
              /\ Cardinality(CallsOf("tex_sub_image_2d")) = 1
              /\ \A i \in CallsOf("data"):
                    log[i].arg = given.stride[1] * (given.height - 1) + given.width * bpp

(***************************************************************************)
(* The binding caches of the device                                        *)
(***************************************************************************)

\* C34: inside a frame, after any sequence of device operations, each
\* binding cache of the device (bound_textures, bound_program, bound_vao,
\* bound_pbo, bound_read_fbo, bound_draw_fbo) names the object that is bound
\* in the GL context, so that a bind the cache elides never leaves another
\* object bound.
C34_BindingCachesMatchGl ==
    (pc # "panicked" /\ device.inside_frame)
        => /\ \A unit \in DOMAIN device.bound_textures:
                 gl.tex[unit][device.bound_textures[unit].target]
                     = device.bound_textures[unit].name
           /\ gl.program = device.bound_program
           /\ gl.vao = device.bound_vao
           /\ gl.pixel_unpack = device.bound_pbo
           /\ gl.read_fbo = device.bound_read_fbo
           /\ gl.draw_fbo = device.bound_draw_fbo

(***************************************************************************)
(* The GpuCacheUpdateLists of the frames staged.                            *)
(***************************************************************************)
\* C35: every GpuCacheUpdateList delivered inside a NewFrame is applied to the
\* cache texture exactly once, in arrival order, no later than the first
\* frame rendered after its arrival, also when the frame that carried it was
\* replaced by a later NewFrame or dropped by cancel_rendering before being
\* rendered; re-rendering the same staged frame applies no list a second
\* time.  The lists applied so far are, at all times, the first of the lists
\* that arrived, in their order; when a render of a frame has returned they
\* are all of them.
C35_UpdateListsAppliedOnceInOrder ==
    pc # "panicked" =>
        /\ Len(hist.lists.applied) <= Len(hist.lists.arrived)
        /\ hist.lists.applied = SubSeq(hist.lists.arrived, 1, Len(hist.lists.applied))
        /\ hist.last_op = "render" => hist.lists.applied = hist.lists.arrived

\* C35 witness: the first frame is dropped by cancel_rendering before it was
\* rendered, a third message stages another frame, and the one render has
\* applied the lists of both frames in arrival order.
C35_Witness ==
    /\ pc = "frame" /\ hist.last_op = "render"
    /\ hist.lists.arrived = <<1, 3>>
    /\ hist.lists.applied = <<1, 3>>
    /\ hist.renders = 1

(***************************************************************************)
(* The render target handles.                                              *)
(***************************************************************************)
\* The handles the last render assigned to its passes, colour then alpha
HandedToPasses ==
    hist.handed.Color[Len(hist.handed.Color)] \o hist.handed.Alpha[Len(hist.handed.Alpha)]

\* The slots of the two free lists
FreeSlots == renderer.color_render_targets \o renderer.alpha_render_targets

\* C36: every render target handle start_frame has created is at all times in
\* exactly one place, a slot of the free list of its kind or the assignment
\* of one pass: none is assigned to two passes, none is twice in a free list.
\* After draw_tile_frame every handle is in a free list and no pass has a
\* texture assigned.  Between the operations the handles created are the
\* slots of the free lists, each once, and the frame staged has no texture
\* assigned; the handles a render assigned to its passes are all different
\* and all of them are back in the free lists.
C36_HandlesInExactlyOnePlace ==
    pc = "frame" =>
        /\ \A i, j \in DOMAIN FreeSlots: FreeSlots[i] = FreeSlots[j] => i = j
        /\ {FreeSlots[i] : i \in DOMAIN FreeSlots} = RenderTargetTextures
        /\ Len(FreeSlots) = hist.created.Color + hist.created.Alpha
        /\ renderer.current_frame # <<>> =>
              \A i \in DOMAIN RenderedFrame.passes:
                 /\ RenderedFrame.passes[i].color_texture_id = <<>>
                 /\ RenderedFrame.passes[i].alpha_texture_id = <<>>
        /\ hist.renders > 0 =>
              /\ \A i, j \in DOMAIN HandedToPasses:
                    HandedToPasses[i] = HandedToPasses[j] => i = j
              /\ \A i \in DOMAIN HandedToPasses:
                    \E j \in DOMAIN FreeSlots: FreeSlots[j].name = HandedToPasses[i]

\* C36 witness: a render has returned that assigned three colour and two
\* alpha handles to the passes of its frame, after an earlier render had
\* created some of them; the five handles are in the free lists.
C36_Witness ==
    /\ pc = "frame" /\ hist.last_op = "render"
    /\ hist.renders > 1
    /\ Len(HandedToPasses) = 5
    /\ Len(hist.handed.Color[1]) \in 1..2
    /\ Len(renderer.color_render_targets) = 3
    /\ Len(renderer.alpha_render_targets) = 2

(***************************************************************************)
(* The rows of the GPU cache shadow.                                       *)
(***************************************************************************)
\* Row `row` of the shadow `cache`: its dirty bit and its blocks
ShadowRow(cache, row) ==
    [is_dirty |-> cache.rows[row + 1],
     blocks |-> SubSeq(cache.cpu_blocks, row * MAX_VERTEX_TEXTURE_WIDTH + 1,
                       (row + 1) * MAX_VERTEX_TEXTURE_WIDTH)]

\* C37: apply_patch with Copy{block_index, block_count, address (u, v)}
\* changes only shadow blocks of row v and only the dirty bit of row v, apart
\* from appending the zero-filled clean rows needed to reach row v: the
\* blocks and the dirty bit of every other row that existed are unchanged,
\* for every u and block_count.
C37_PatchChangesOnlyItsRow ==
    [][(pc' = "cache" /\ hist'.last_op = "apply_patch" /\ hist'.ops = hist.ops + 1) =>
          LET v == hist'.patch.address.v
              before == renderer.gpu_cache_texture
              after == renderer'.gpu_cache_texture
          IN /\ Len(after.rows) = Max({Len(before.rows), v + 1})
             /\ Len(after.cpu_blocks) = Len(after.rows) * MAX_VERTEX_TEXTURE_WIDTH
             /\ after.rows[v + 1]
             /\ \A row \in 0..(Len(after.rows) - 1):
                   row # v =>
                      ShadowRow(after, row) =
                          IF row < Len(before.rows) THEN ShadowRow(before, row)
                          ELSE [is_dirty |-> FALSE,
                                blocks |-> [i \in 1..MAX_VERTEX_TEXTURE_WIDTH |-> EmptyBlock]]]_vars

\* C38: every row index that flush uploads is smaller than the current height
\* of the GPU cache texture, provided every Copy address, of the update lists
\* and of the deferred resolves, has v smaller than the largest height of any
\* GpuCacheUpdateList applied so far.
C38_UploadedRowsBelowTextureHeight ==
    (pc = "cache" /\ hist.last_op = "flush" /\ hist.copies.covered) =>
        \A i \in DOMAIN log:
           log[i].op = "tex_sub_image_2d_pbo" => log[i].arg < CacheTextureHeight

\* C38 witness: flush returns after a list of height 2 and a patch in row 1,
\* as of a deferred resolve, and has uploaded row 1.
C38_Witness ==
    /\ pc = "cache" /\ hist.last_op = "flush"
    /\ hist.copies = [height |-> 2, covered |-> TRUE]
    /\ hist.patch.address.v = 1
    /\ Uploads(1) = 1
    /\ CacheTextureHeight = 2

(***************************************************************************)
(* The storage of a layer render target.                                   *)
(***************************************************************************)
\* C39: after init_texture(id, w, h, fmt, filter, LayerRenderTarget(N)) the
\* GPU storage of the texture is w x h x N texels of format fmt, with N
\* framebuffers attached to its layers, whatever the size, the layer count
\* and the format of the texture were before.
C39_LayerTargetStorageAfterInit ==
    (pc = "texture" /\ hist.last_op = "init_texture"
     /\ hist.init.mode.kind = "LayerRenderTarget") =>
        LET id == hist.handle[1]
            fbo_ids == device.textures[id].fbo_ids
        IN /\ id.name \in DOMAIN gl.images
           /\ gl.images[id.name].width = hist.init.width
           /\ gl.images[id.name].height = hist.init.height
           /\ gl.images[id.name].layers = hist.init.mode.layers
           /\ gl.images[id.name].format = hist.init.format
           /\ Len(fbo_ids) = hist.init.mode.layers
           /\ \A l \in DOMAIN fbo_ids:
                 /\ fbo_ids[l] \in DOMAIN gl.fbos
                 /\ gl.fbos[fbo_ids[l]] = [texture |-> id.name, layer |-> l - 1]

(***************************************************************************)
(* The texture records of the device.                                      *)
(***************************************************************************)
\* C40: resize_texture leaves the set of texture records owned by the device
\* unchanged: the temporary texture it creates is not left in the texture
\* table of the device, so that any number of Grow operations does not
\* increase the number of texture records.  Stated of every resize_texture
\* that returns, called by itself or for a Grow of update_texture_cache.
C40_ResizeKeepsTextureRecords ==
    [][(/\ hist'.ops = hist.ops + 1
        /\ \/ pc' = "texture" /\ hist'.last_op = "resize_texture"
           \/ /\ pc' = "updates" /\ hist'.last_op = "update_texture_cache"
              /\ hist'.updates[Len(hist'.updates)].op = "Grow")
           => DOMAIN device'.textures = DOMAIN device.textures]_vars

====
